---- MODULE Spec2Model ----
(***************************************************************************)
(* Order aggregate (Order, OrderItem, Money, OrderStatus) of the lessons   *)
(* 4-6 code, as a state machine: a caller creates or reconstructs an       *)
(* Order and applies commands to the latest instance it holds.             *)
(***************************************************************************)
EXTENDS Integers, Sequences, FiniteSets, TLC

\* ------------------------------------------------------------------ bounds
MaxQty    == 2      \* largest line quantity explored
MaxAmount == 2      \* largest unit price amount explored
MaxClock  == 0      \* largest reading of the wall clock
MaxLines  == 2      \* longest item list handed to Order.reconstruct
MaxTotal  == 2      \* largest total amount handed to Order.reconstruct
MaxMoney  == 4      \* largest amount a chain of Money operations builds up
NumProcs  == 2      \* concurrent executions of a use case
MaxSubs   == 2      \* longest handler list of one event type
MaxFees   == 2      \* largest overdue fees a caller of User methods builds up
MaxLateDays == 1    \* most full days past the borrow period the clock reaches
MaxRuns   == 2      \* calls of BorrowBookService in one run

\* ------------------------------------------------------------------ inputs
JPY == <<"J", "P", "Y">>
USD == <<"U", "S", "D">>
BadCurrency == <<"j", "p", "y">>

Books          == {"B1", "B2"}
OrderIds       == {"o1"}
CustomerIds    == {"", "c1"}
CurrencyInputs == {JPY, USD, BadCurrency}
\* the (amount, currency) pairs a caller hands to Money.create
MoneyInputs    == {<<-1, JPY>>, <<1, JPY>>, <<MaxAmount, JPY>>, <<1, USD>>, <<1, BadCurrency>>}
QuantityInputs == (-1)..MaxQty

\* a Date is a clock reading; NullDate is the null of `Date | null`
NullDate == -1

\* ------------------------------------------------------------------ results
\* outcome of a call that returns a value or throws
Ok(v)       == [ok |-> TRUE,  err |-> "",  val |-> v]
Throw(e, d) == [ok |-> FALSE, err |-> e,   val |-> d]

\* ------------------------------------------------------------------ Money
UpperCase == {"A","B","C","D","E","F","G","H","I","J","K","L","M",
              "N","O","P","Q","R","S","T","U","V","W","X","Y","Z"}

NoMoney == [amount |-> 0, currency |-> <<>>]

RECURSIVE TrimStart(_)
TrimStart(s) == IF s # <<>> /\ Head(s) = " " THEN TrimStart(Tail(s)) ELSE s

RECURSIVE TrimEnd(_)
TrimEnd(s) ==
    IF s # <<>> /\ s[Len(s)] = " " THEN TrimEnd(SubSeq(s, 1, Len(s) - 1)) ELSE s

Trim(s) == TrimEnd(TrimStart(s))

\* mutant: the amount is not examined
MoneyNewAnyAmount(amount, currency) ==
    IF currency = <<>> \/ Len(Trim(currency)) # 3
         THEN Throw("InvalidMoney", NoMoney)
    ELSE IF ~(Len(currency) = 3 /\ \A i \in 1..3 : currency[i] \in UpperCase)
         THEN Throw("InvalidMoney", NoMoney)
    ELSE Ok([amount |-> amount, currency |-> currency])

\* Money.validateInvariants, run by the private constructor
MoneyNew(amount, currency) ==
    IF amount < 0 THEN Throw("InvalidMoney", NoMoney)
    ELSE IF currency = <<>> \/ Len(Trim(currency)) # 3
         THEN Throw("InvalidMoney", NoMoney)
    ELSE IF ~(Len(currency) = 3 /\ \A i \in 1..3 : currency[i] \in UpperCase)
         THEN Throw("InvalidMoney", NoMoney)
    ELSE Ok([amount |-> amount, currency |-> currency])

MoneyCreate(amount, currency) == MoneyNew(amount, currency)

MoneyZero(currency) == MoneyNew(0, currency)

MoneyAdd(a, b) ==
    IF a.currency # b.currency THEN Throw("CurrencyMismatch", NoMoney)
    ELSE MoneyNew(a.amount + b.amount, a.currency)

\* mutant: the amounts are compared before the currencies
MoneySubtractAmountsFirst(a, b) ==
    IF a.amount - b.amount < 0 THEN Throw("NegativeResult", NoMoney)
    ELSE IF a.currency # b.currency THEN Throw("CurrencyMismatch", NoMoney)
    ELSE MoneyNew(a.amount - b.amount, a.currency)

MoneySubtract(a, b) ==
    IF a.currency # b.currency THEN Throw("CurrencyMismatch", NoMoney)
    ELSE IF a.amount - b.amount < 0 THEN Throw("NegativeResult", NoMoney)
    ELSE MoneyNew(a.amount - b.amount, a.currency)

MoneyMultiply(a, multiplier) ==
    IF multiplier < 0 THEN Throw("InvalidMultiplier", NoMoney)
    ELSE MoneyNew(a.amount * multiplier, a.currency)

MoneyIsGreaterThan(a, b) ==
    IF a.currency # b.currency THEN Throw("CurrencyMismatch", FALSE)
    ELSE Ok(a.amount > b.amount)

MoneyIsLessThan(a, b) ==
    IF a.currency # b.currency THEN Throw("CurrencyMismatch", FALSE)
    ELSE Ok(a.amount < b.amount)

MoneyEquals(a, b) == a.amount = b.amount /\ a.currency = b.currency

\* the Money values a caller can hold
Monies ==
    { MoneyCreate(x[1], x[2]).val : x \in { y \in MoneyInputs : MoneyCreate(y[1], y[2]).ok } }

\* ------------------------------------------------------------------ OrderStatus
DRAFT     == "DRAFT"
PLACED    == "PLACED"
COMPLETED == "COMPLETED"
CANCELLED == "CANCELLED"
OrderStatusValue == {DRAFT, PLACED, COMPLETED, CANCELLED}

transitions ==
    [s \in OrderStatusValue |->
        CASE s = DRAFT     -> {PLACED, CANCELLED}
          [] s = PLACED    -> {COMPLETED, CANCELLED}
          [] s = COMPLETED -> {}
          [] s = CANCELLED -> {}]

\* mutant: a Draft order may move to any status
canTransitionToFromDraftAnywhere(status, newStatus) ==
    status = DRAFT \/ newStatus \in transitions[status]

\* mutant: a status may also move to itself
canTransitionToItself(status, newStatus) ==
    status = newStatus \/ newStatus \in transitions[status]

canTransitionTo(status, newStatus) == newStatus \in transitions[status]

isDraft(status)     == status = DRAFT
isPlaced(status)    == status = PLACED
isCompleted(status) == status = COMPLETED
isCancelled(status) == status = CANCELLED
isTerminal(status)  == isCompleted(status) \/ isCancelled(status)

\* ------------------------------------------------------------------ OrderItem
NoItem == [bookId |-> "", quantity |-> 0, unitPrice |-> NoMoney,
           subtotal |-> NoMoney]

\* mutant: the given subtotal is trusted
OrderItemNewTrustingSubtotal(bookId, quantity, unitPrice, subtotal) ==
    IF quantity <= 0 THEN Throw("InvalidQuantity", NoItem)
    ELSE IF unitPrice.amount < 0 THEN Throw("NegativeMoney", NoItem)
    ELSE IF subtotal.amount < 0 THEN Throw("NegativeMoney", NoItem)
    ELSE Ok([bookId |-> bookId, quantity |-> quantity,
             unitPrice |-> unitPrice, subtotal |-> subtotal])

\* OrderItem.validateInvariants, run by the private constructor
OrderItemNew(bookId, quantity, unitPrice, subtotal) ==
    IF quantity <= 0 THEN Throw("InvalidQuantity", NoItem)
    ELSE IF unitPrice.amount < 0 THEN Throw("NegativeMoney", NoItem)
    ELSE IF subtotal.amount < 0 THEN Throw("NegativeMoney", NoItem)
    ELSE LET expectedSubtotal == MoneyMultiply(unitPrice, quantity) IN
         IF ~expectedSubtotal.ok THEN Throw(expectedSubtotal.err, NoItem)
         ELSE IF ~MoneyEquals(subtotal, expectedSubtotal.val)
              THEN Throw("SubtotalMismatch", NoItem)
         ELSE Ok([bookId |-> bookId, quantity |-> quantity,
                  unitPrice |-> unitPrice, subtotal |-> subtotal])

OrderItemCreate(bookId, quantity, unitPrice) ==
    LET subtotal == MoneyMultiply(unitPrice, quantity) IN
    IF ~subtotal.ok THEN Throw(subtotal.err, NoItem)
    ELSE OrderItemNew(bookId, quantity, unitPrice, subtotal.val)

OrderItemReconstruct(bookId, quantity, unitPrice, subtotal) ==
    OrderItemNew(bookId, quantity, unitPrice, subtotal)

\* index of the first item for bookId, 0 when there is none (findIndex)
RECURSIVE FindIndexFrom(_, _, _)
FindIndexFrom(items, bookId, i) ==
    IF i > Len(items) THEN 0
    ELSE IF items[i].bookId = bookId THEN i
    ELSE FindIndexFrom(items, bookId, i + 1)

\* mutant: the search starts one item late
findIndexSkippingFirst(items, bookId) == FindIndexFrom(items, bookId, 2)

findIndex(items, bookId) == FindIndexFrom(items, bookId, 1)

\* ------------------------------------------------------------------ Order
NoOrder == [id |-> "", customerId |-> "", items |-> <<>>, total |-> NoMoney,
            status |-> "NONE", createdAt |-> NullDate, placedAt |-> NullDate,
            completedAt |-> NullDate, cancelledAt |-> NullDate]

\* items.reduce((sum, item) => sum.add(item.subtotal), seed)
RECURSIVE Reduce(_, _, _)
Reduce(items, i, sum) ==
    IF i > Len(items) THEN Ok(sum)
    ELSE LET next == MoneyAdd(sum, items[i].subtotal) IN
         IF ~next.ok THEN next ELSE Reduce(items, i + 1, next.val)

\* mutant: the fold leaves out the first item
calculateTotalSkippingFirst(thisTotal, items) ==
    IF Len(items) = 0 THEN MoneyZero(thisTotal.currency)
    ELSE LET seed == MoneyZero(items[1].unitPrice.currency) IN
         IF ~seed.ok THEN seed ELSE Reduce(items, 2, seed.val)

\* mutant: the amounts are summed in the first item's currency
calculateTotalInFirstCurrency(thisTotal, items) ==
    IF Len(items) = 0 THEN MoneyZero(thisTotal.currency)
    ELSE Reduce([i \in 1..Len(items) |->
                   [items[i] EXCEPT !.subtotal.currency = items[1].unitPrice.currency]],
                1, [amount |-> 0, currency |-> items[1].unitPrice.currency])

\* thisTotal is this._total of the instance the method is called on
calculateTotalFromItems(thisTotal, items) ==
    IF Len(items) = 0 THEN MoneyZero(thisTotal.currency)
    ELSE LET seed == MoneyZero(items[1].unitPrice.currency) IN
         IF ~seed.ok THEN seed ELSE Reduce(items, 1, seed.val)

\* mutant: the timestamp checks are missing
validateInvariantsTotalOnly(o) ==
    LET calculatedTotal == calculateTotalFromItems(o.total, o.items) IN
    IF ~calculatedTotal.ok THEN calculatedTotal.err
    ELSE IF ~MoneyEquals(o.total, calculatedTotal.val) THEN "TotalMismatch"
    ELSE ""

\* mutant: the total check is missing
validateInvariantsTimestampsOnly(o) ==
    IF isPlaced(o.status) /\ o.placedAt = NullDate THEN "MissingPlacedAt"
    ELSE IF isCompleted(o.status) /\ o.completedAt = NullDate
         THEN "MissingCompletedAt"
    ELSE IF isCancelled(o.status) /\ o.cancelledAt = NullDate
         THEN "MissingCancelledAt"
    ELSE ""

\* Order.validateInvariants; "" when every invariant holds
validateInvariants(o) ==
    LET calculatedTotal == calculateTotalFromItems(o.total, o.items) IN
    IF ~calculatedTotal.ok THEN calculatedTotal.err
    ELSE IF ~MoneyEquals(o.total, calculatedTotal.val) THEN "TotalMismatch"
    ELSE IF isPlaced(o.status) /\ o.placedAt = NullDate THEN "MissingPlacedAt"
    ELSE IF isCompleted(o.status) /\ o.completedAt = NullDate
         THEN "MissingCompletedAt"
    ELSE IF isCancelled(o.status) /\ o.cancelledAt = NullDate
         THEN "MissingCancelledAt"
    ELSE ""

\* the private constructor
OrderNew(id, customerId, items, total, status, createdAt, placedAt, completedAt, cancelledAt) ==
    LET o == [id |-> id, customerId |-> customerId, items |-> items,
              total |-> total, status |-> status, createdAt |-> createdAt,
              placedAt |-> placedAt, completedAt |-> completedAt,
              cancelledAt |-> cancelledAt]
        violated == validateInvariants(o)
    IN IF violated # "" THEN Throw(violated, NoOrder) ELSE Ok(o)

\* mutant: an empty customerId is refused
OrderCreateRequiringCustomer(id, customerId, currency, date) ==
    LET zero == MoneyZero(currency) IN
    IF customerId = "" THEN Throw("InvalidCustomerId", NoOrder)
    ELSE IF ~zero.ok THEN Throw(zero.err, NoOrder)
    ELSE OrderNew(id, customerId, <<>>, zero.val, DRAFT, date,
                  NullDate, NullDate, NullDate)

\* mutant: the currency argument is ignored
OrderCreateInJPY(id, customerId, currency, date) ==
    LET zero == MoneyZero(JPY) IN
    IF ~MoneyZero(currency).ok THEN Throw(MoneyZero(currency).err, NoOrder)
    ELSE OrderNew(id, customerId, <<>>, zero.val, DRAFT, date,
                  NullDate, NullDate, NullDate)

OrderCreate(id, customerId, currency, date) ==
    LET zero == MoneyZero(currency) IN
    IF ~zero.ok THEN Throw(zero.err, NoOrder)
    ELSE OrderNew(id, customerId, <<>>, zero.val, DRAFT, date,
                  NullDate, NullDate, NullDate)

\* mutant: placedAt is not handed on
OrderReconstructLosingPlacedAt(id, customerId, items, total, status, createdAt, placedAt, completedAt, cancelledAt) ==
    OrderNew(id, customerId, items, total, status, createdAt, NullDate,
             completedAt, cancelledAt)

OrderReconstruct(id, customerId, items, total, status, createdAt, placedAt, completedAt, cancelledAt) ==
    OrderNew(id, customerId, items, total, status, createdAt, placedAt,
             completedAt, cancelledAt)

\* mutant: the item count is not looked at
canPlaceWithoutItems(this) == isDraft(this.status)

\* mutant: a Placed order still counts as modifiable
canModifyUntilCompleted(this) == isDraft(this.status) \/ isPlaced(this.status)

canPlace(this)  == Len(this.items) > 0 /\ isDraft(this.status)
canModify(this) == isDraft(this.status)

RECURSIVE SumQuantities(_, _)
SumQuantities(items, i) ==
    IF i > Len(items) THEN 0 ELSE items[i].quantity + SumQuantities(items, i + 1)

getTotalItemCount(this) == SumQuantities(this.items, 1)

\* a command's outcome: the receiver as the call leaves it, and what the
\* call returned or threw
Outcome(this, result) ==
    [this |-> this, ok |-> result.ok, err |-> result.err, val |-> result.val]

\* [...items.slice(0, i), item, ...items.slice(i + 1)], i counted from 1
ReplaceAt(items, i, item) ==
    SubSeq(items, 1, i - 1) \o <<item>> \o SubSeq(items, i + 1, Len(items))

RemoveAt(items, i) ==
    SubSeq(items, 1, i - 1) \o SubSeq(items, i + 1, Len(items))

WithItems(this, newItems) ==
    LET newTotal == calculateTotalFromItems(this.total, newItems) IN
    IF ~newTotal.ok THEN Throw(newTotal.err, NoOrder)
    ELSE OrderNew(this.id, this.customerId, newItems, newTotal.val,
                  this.status, this.createdAt, this.placedAt,
                  this.completedAt, this.cancelledAt)

\* mutant: a merged line keeps the price it had
addItemKeepingPrice(this, bookId, quantity, unitPrice) ==
    IF ~canModify(this)
    THEN Outcome(this, Throw("OrderNotModifiable", NoOrder))
    ELSE LET existingItemIndex == findIndex(this.items, bookId)
             item == IF existingItemIndex >= 1
                     THEN OrderItemCreate(bookId,
                              this.items[existingItemIndex].quantity + quantity,
                              this.items[existingItemIndex].unitPrice)
                     ELSE OrderItemCreate(bookId, quantity, unitPrice)
         IN IF ~item.ok THEN Outcome(this, Throw(item.err, NoOrder))
            ELSE Outcome(this, WithItems(this,
                     IF existingItemIndex >= 1
                     THEN ReplaceAt(this.items, existingItemIndex, item.val)
                     ELSE Append(this.items, item.val)))

addItem(this, bookId, quantity, unitPrice) ==
    IF ~canModify(this)
    THEN Outcome(this, Throw("OrderNotModifiable", NoOrder))
    ELSE LET existingItemIndex == findIndex(this.items, bookId)
             item == IF existingItemIndex >= 1
                     THEN OrderItemCreate(bookId,
                              this.items[existingItemIndex].quantity + quantity,
                              unitPrice)
                     ELSE OrderItemCreate(bookId, quantity, unitPrice)
         IN IF ~item.ok THEN Outcome(this, Throw(item.err, NoOrder))
            ELSE Outcome(this, WithItems(this,
                     IF existingItemIndex >= 1
                     THEN ReplaceAt(this.items, existingItemIndex, item.val)
                     ELSE Append(this.items, item.val)))

\* mutant: the status of the order is not looked at
removeItemInAnyStatus(this, bookId) ==
    LET itemIndex == findIndex(this.items, bookId) IN
    IF itemIndex < 1 THEN Outcome(this, Throw("ItemNotFound", NoOrder))
    ELSE Outcome(this, WithItems(this, RemoveAt(this.items, itemIndex)))

\* mutant: every line for the book is dropped
removeItemEveryLine(this, bookId) ==
    IF ~canModify(this)
    THEN Outcome(this, Throw("OrderNotModifiable", NoOrder))
    ELSE LET itemIndex == findIndex(this.items, bookId) IN
         IF itemIndex < 1 THEN Outcome(this, Throw("ItemNotFound", NoOrder))
         ELSE Outcome(this, WithItems(this,
                  SelectSeq(this.items, LAMBDA item : item.bookId # bookId)))

removeItem(this, bookId) ==
    IF ~canModify(this)
    THEN Outcome(this, Throw("OrderNotModifiable", NoOrder))
    ELSE LET itemIndex == findIndex(this.items, bookId) IN
         IF itemIndex < 1 THEN Outcome(this, Throw("ItemNotFound", NoOrder))
         ELSE Outcome(this, WithItems(this, RemoveAt(this.items, itemIndex)))

\* mutant: the updated line is put at the end of the list
updateItemQuantityAtEnd(this, bookId, newQuantity) ==
    IF ~canModify(this)
    THEN Outcome(this, Throw("OrderNotModifiable", NoOrder))
    ELSE LET itemIndex == findIndex(this.items, bookId) IN
         IF itemIndex < 1 THEN Outcome(this, Throw("ItemNotFound", NoOrder))
         ELSE LET updatedItem ==
                      OrderItemCreate(bookId, newQuantity,
                                      this.items[itemIndex].unitPrice)
              IN IF ~updatedItem.ok
                 THEN Outcome(this, Throw(updatedItem.err, NoOrder))
                 ELSE Outcome(this, WithItems(this,
                          Append(RemoveAt(this.items, itemIndex), updatedItem.val)))

updateItemQuantity(this, bookId, newQuantity) ==
    IF ~canModify(this)
    THEN Outcome(this, Throw("OrderNotModifiable", NoOrder))
    ELSE LET itemIndex == findIndex(this.items, bookId) IN
         IF itemIndex < 1 THEN Outcome(this, Throw("ItemNotFound", NoOrder))
         ELSE LET updatedItem ==
                      OrderItemCreate(bookId, newQuantity,
                                      this.items[itemIndex].unitPrice)
              IN IF ~updatedItem.ok
                 THEN Outcome(this, Throw(updatedItem.err, NoOrder))
                 ELSE Outcome(this, WithItems(this,
                          ReplaceAt(this.items, itemIndex, updatedItem.val)))

\* mutant: the receiver itself is moved to Placed
placeInPlace(this, date) ==
    IF ~canPlace(this)
    THEN Outcome(this, Throw("CannotPlaceEmptyOrder", NoOrder))
    ELSE LET placed == OrderNew(this.id, this.customerId, this.items,
                                this.total, PLACED, this.createdAt, date,
                                this.completedAt, this.cancelledAt)
         IN Outcome(IF placed.ok THEN placed.val ELSE this, placed)

\* mutant: neither the items nor the status are examined
placeAnyOrder(this, date) ==
    Outcome(this, OrderNew(this.id, this.customerId, this.items,
                           this.total, PLACED, this.createdAt, date,
                           this.completedAt, this.cancelledAt))

place(this, date) ==
    IF ~canPlace(this)
    THEN Outcome(this, Throw("CannotPlaceEmptyOrder", NoOrder))
    ELSE IF ~canTransitionTo(this.status, PLACED)
    THEN Outcome(this, Throw("InvalidStatusTransition", NoOrder))
    ELSE Outcome(this, OrderNew(this.id, this.customerId, this.items,
                                this.total, PLACED, this.createdAt, date,
                                this.completedAt, this.cancelledAt))

\* mutant: the date is written to cancelledAt as well
completeStampingCancelledAt(this, date) ==
    IF ~canTransitionTo(this.status, COMPLETED)
    THEN Outcome(this, Throw("InvalidStatusTransition", NoOrder))
    ELSE Outcome(this, OrderNew(this.id, this.customerId, this.items,
                                this.total, COMPLETED, this.createdAt,
                                this.placedAt, date, date))

\* mutant: the transition table is not consulted
completeUnchecked(this, date) ==
    Outcome(this, OrderNew(this.id, this.customerId, this.items,
                           this.total, COMPLETED, this.createdAt,
                           this.placedAt, date, this.cancelledAt))

complete(this, date) ==
    IF ~canTransitionTo(this.status, COMPLETED)
    THEN Outcome(this, Throw("InvalidStatusTransition", NoOrder))
    ELSE Outcome(this, OrderNew(this.id, this.customerId, this.items,
                                this.total, COMPLETED, this.createdAt,
                                this.placedAt, date, this.cancelledAt))

\* mutant: a cancelled order comes back emptied
cancelDroppingItems(this, date) ==
    IF ~canTransitionTo(this.status, CANCELLED)
    THEN Outcome(this, Throw("InvalidStatusTransition", NoOrder))
    ELSE Outcome(this, OrderNew(this.id, this.customerId, <<>>,
                                [amount |-> 0, currency |-> this.total.currency],
                                CANCELLED, this.createdAt,
                                this.placedAt, this.completedAt, date))

\* mutant: a cancelled order forgets when it was placed
cancelLosingPlacedAt(this, date) ==
    IF ~canTransitionTo(this.status, CANCELLED)
    THEN Outcome(this, Throw("InvalidStatusTransition", NoOrder))
    ELSE Outcome(this, OrderNew(this.id, this.customerId, this.items,
                                this.total, CANCELLED, this.createdAt,
                                NullDate, this.completedAt, date))

cancel(this, date) ==
    IF ~canTransitionTo(this.status, CANCELLED)
    THEN Outcome(this, Throw("InvalidStatusTransition", NoOrder))
    ELSE Outcome(this, OrderNew(this.id, this.customerId, this.items,
                                this.total, CANCELLED, this.createdAt,
                                this.placedAt, this.completedAt, date))

\* ------------------------------------------------------------------ application
\* const unitPrice = Money.create(1500, currency)
DefaultUnitPrice == 1500

\* the books bookRepository.findById finds, and the ids callers ask for
Catalog    == Books
BookInputs == Catalog \cup {"B0"}

\* customer ids that are empty after trim()
BlankCustomerIds   == {"", " "}
UseCaseCustomerIds == BlankCustomerIds \cup {"c1"}

\* quantities handed to AddItemToOrderUseCase.execute
UseCaseQuantities == {0, 1, MaxQty}

\* no row for the order id in the orders table
NoRows == [id |-> "", customerId |-> "", totalAmount |-> 0, currency |-> <<>>,
           status |-> "NONE", createdAt |-> NullDate, placedAt |-> NullDate,
           completedAt |-> NullDate, cancelledAt |-> NullDate, items |-> <<>>]

ItemRow(item) ==
    [bookId |-> item.bookId, quantity |-> item.quantity,
     unitPrice |-> item.unitPrice.amount, currency |-> item.unitPrice.currency,
     subtotalAmount |-> item.subtotal.amount]

\* mutant: the rows of the old items are not deleted
saveKeepingOldItems(rows, o) ==
    [id |-> o.id, customerId |-> o.customerId,
     totalAmount |-> o.total.amount, currency |-> o.total.currency,
     status |-> o.status,
     createdAt |-> IF rows = NoRows THEN o.createdAt ELSE rows.createdAt,
     placedAt |-> o.placedAt, completedAt |-> o.completedAt,
     cancelledAt |-> o.cancelledAt,
     items |-> rows.items \o [i \in 1..Len(o.items) |-> ItemRow(o.items[i])]]

\* PrismaOrderRepository.save: one transaction that deletes the item rows,
\* upserts the order row (createdAt is written on insert only) and inserts
\* the item rows; the rows that were there are never compared with anything
save(rows, o) ==
    [id |-> o.id, customerId |-> o.customerId,
     totalAmount |-> o.total.amount, currency |-> o.total.currency,
     status |-> o.status,
     createdAt |-> IF rows = NoRows THEN o.createdAt ELSE rows.createdAt,
     placedAt |-> o.placedAt, completedAt |-> o.completedAt,
     cancelledAt |-> o.cancelledAt,
     items |-> [i \in 1..Len(o.items) |-> ItemRow(o.items[i])]]

\* OrderItem.reconstruct on one item row
ItemOfRow(row) ==
    LET unitPrice == MoneyCreate(row.unitPrice, row.currency)
        subtotal  == MoneyCreate(row.subtotalAmount, row.currency)
    IN IF ~unitPrice.ok THEN Throw(unitPrice.err, NoItem)
       ELSE IF ~subtotal.ok THEN Throw(subtotal.err, NoItem)
       ELSE OrderItemReconstruct(row.bookId, row.quantity, unitPrice.val, subtotal.val)

\* PrismaOrderRepository.findById: null (NoOrder) when there is no row
findById(rows) ==
    IF rows = NoRows THEN Ok(NoOrder)
    ELSE LET items == [i \in 1..Len(rows.items) |-> ItemOfRow(rows.items[i])]
             bad   == { i \in 1..Len(rows.items) : ~items[i].ok }
             total == MoneyCreate(rows.totalAmount, rows.currency)
         IN IF bad # {} THEN Throw(items[CHOOSE i \in bad : \A j \in bad : i <= j].err, NoOrder)
            ELSE IF ~total.ok THEN Throw(total.err, NoOrder)
            ELSE OrderReconstruct(rows.id, rows.customerId,
                                  [i \in 1..Len(rows.items) |-> items[i].val],
                                  total.val, rows.status, rows.createdAt, rows.placedAt,
                                  rows.completedAt, rows.cancelledAt)

\* ------------------------------------------------------------------ event bus
OrderPlaced    == "OrderPlaced"
OrderCancelled == "OrderCancelled"
EventTypes     == {OrderPlaced, OrderCancelled}

\* handler objects: two react to OrderPlaced, one to OrderCancelled
Handlers == {"ReserveInventory", "SendOrderConfirmation", "ReleaseInventory"}

getEventType(h) == IF h = "ReleaseInventory" THEN OrderCancelled ELSE OrderPlaced

NoEvent == [eventId |-> 0, eventType |-> "", aggregateId |-> "", customerId |-> "",
            items |-> <<>>, totalAmount |-> NoMoney]

\* new OrderPlacedEvent(...) as PlaceOrderUseCase builds it; eventId stands
\* for the fresh uuid
OrderPlacedEventNew(eventId, o) ==
    [eventId |-> eventId, eventType |-> OrderPlaced, aggregateId |-> o.id,
     customerId |-> o.customerId,
     items |-> [i \in 1..Len(o.items) |->
                  [bookId |-> o.items[i].bookId, quantity |-> o.items[i].quantity,
                   unitPrice |-> o.items[i].unitPrice]],
     totalAmount |-> o.total]

\* handlers: the arrays of the Map; keys: the event types the Map has;
\* log: every call of handle() so far, with whether it returned or threw
NoBus == [handlers |-> [t \in EventTypes |-> <<>>], keys |-> {}, log |-> <<>>]

subscribe(bus, h) ==
    [bus EXCEPT !.keys = @ \cup {getEventType(h)},
                !.handlers[getEventType(h)] = Append(@, h)]

\* indexOf: position of the first occurrence, 0 when there is none
IndexOf(arr, h) ==
    IF \E i \in 1..Len(arr) : arr[i] = h
    THEN CHOOSE i \in 1..Len(arr) : arr[i] = h /\ \A j \in 1..(i - 1) : arr[j] # h
    ELSE 0

unsubscribe(bus, h) ==
    LET arr == bus.handlers[getEventType(h)]
        index == IndexOf(arr, h)
    IN IF getEventType(h) \in bus.keys /\ index > 0
       THEN [bus EXCEPT !.handlers[getEventType(h)] =
                            SubSeq(arr, 1, index - 1) \o SubSeq(arr, index + 1, Len(arr))]
       ELSE bus

clearHandlers(bus) ==
    [bus EXCEPT !.keys = {}, !.handlers = [t \in EventTypes |-> <<>>]]

\* a running publish(event): i handlers of its array have been visited; the
\* array is the Map's own (live) or, when the Map had none for the type or
\* was cleared since, an array only this call holds (arr); n is the number
\* of handlers the array had when publish was called, and since lists those
\* of them that have not been unsubscribed since the call
NoPublish == [event |-> NoEvent, i |-> 0, live |-> FALSE, arr |-> <<>>, n |-> 0,
              since |-> <<>>]

publishBegin(bus, event) ==
    [event |-> event, i |-> 0, live |-> event.eventType \in bus.keys, arr |-> <<>>,
     n |-> Len(bus.handlers[event.eventType]),
     since |-> bus.handlers[event.eventType]]

ArrayOf(bus, pub) == IF pub.live THEN bus.handlers[pub.event.eventType] ELSE pub.arr

\* the for...of loop has reached the end of the array
publishDone(bus, pub) == pub.i >= Len(ArrayOf(bus, pub))

\* mutant: what a handler throws ends the loop
publishTurnRethrowing(bus, pub, ok) ==
    [pub |-> [pub EXCEPT !.i = IF ok THEN @ + 1 ELSE Len(ArrayOf(bus, pub))],
     bus |-> [bus EXCEPT !.log = Append(@, [handler |-> ArrayOf(bus, pub)[pub.i + 1],
                                            event |-> pub.event, ok |-> ok])]]

\* one turn of the loop: handle() of the next handler returns (ok) or
\* throws, and the catch block swallows what it threw
publishTurn(bus, pub, ok) ==
    [pub |-> [pub EXCEPT !.i = @ + 1],
     bus |-> [bus EXCEPT !.log = Append(@, [handler |-> ArrayOf(bus, pub)[pub.i + 1],
                                            event |-> pub.event, ok |-> ok])]]

\* ------------------------------------------------------------------ library
ACTIVE    == "ACTIVE"
SUSPENDED == "SUSPENDED"
UserStatusValue == {ACTIVE, SUSPENDED}

\* static readonly MAX_BORROW_LIMIT = 5
MAX_BORROW_LIMIT == 5

\* the UserId of the user that is followed, and of another user
UserIds  == {"10000001", "10000002"}
TheUser  == "10000001"
NoUserId == ""

NoUser == [id |-> NoUserId, name |-> "", email |-> "", status |-> "NONE",
           currentBorrowCount |-> 0, overdueFees |-> 0, createdAt |-> NullDate]

\* names and emails handed to User.create
NameInputs  == {"", " ", "Ann"}
EmailInputs == {"", " ", "ann", "ann@lib"}

\* !s || !s.trim()
IsBlank(s) == s \in {"", " "}

\* email.includes('@')
HasAt(email) == email \in {"ann@lib"}

\* private constructor of User
UserNew(id, name, email, status, currentBorrowCount, overdueFees, createdAt) ==
    IF currentBorrowCount < 0 THEN Throw("Borrow count cannot be negative", NoUser)
    ELSE IF overdueFees < 0 THEN Throw("Overdue fees cannot be negative", NoUser)
    ELSE Ok([id |-> id, name |-> name, email |-> email, status |-> status,
             currentBorrowCount |-> currentBorrowCount, overdueFees |-> overdueFees,
             createdAt |-> createdAt])

\* User.create; UserId.generate() gives id, the clock reads date
UserCreate(id, name, email, date) ==
    IF IsBlank(name) THEN Throw("Name cannot be empty", NoUser)
    ELSE IF IsBlank(email) \/ ~HasAt(email) THEN Throw("Valid email is required", NoUser)
    ELSE UserNew(id, name, email, ACTIVE, 0, 0, date)

UserReconstruct(id, name, email, status, currentBorrowCount, overdueFees, createdAt) ==
    UserNew(id, name, email, status, currentBorrowCount, overdueFees, createdAt)

\* mutant: the borrow limit is not looked at
canBorrowAnyNumber(user) ==
    user.status # SUSPENDED /\ ~(user.overdueFees > 0)

canBorrow(user) ==
    IF user.status = SUSPENDED THEN FALSE
    ELSE IF user.currentBorrowCount >= MAX_BORROW_LIMIT THEN FALSE
    ELSE IF user.overdueFees > 0 THEN FALSE
    ELSE TRUE

\* User.borrowBook
UserBorrowBook(user) ==
    IF ~canBorrow(user) THEN Throw("User cannot borrow books", user)
    ELSE UserNew(user.id, user.name, user.email, user.status,
                 user.currentBorrowCount + 1, user.overdueFees, user.createdAt)

\* User.returnBook
UserReturnBook(user) ==
    IF user.currentBorrowCount = 0 THEN Throw("User has no books to return", user)
    ELSE UserNew(user.id, user.name, user.email, user.status,
                 user.currentBorrowCount - 1, user.overdueFees, user.createdAt)

addOverdueFee(user, amount) ==
    IF amount <= 0 THEN Throw("Overdue fee amount must be positive", user)
    ELSE UserNew(user.id, user.name, user.email, user.status,
                 user.currentBorrowCount, user.overdueFees + amount, user.createdAt)

payOverdueFee(user, amount) ==
    IF amount <= 0 THEN Throw("Payment amount must be positive", user)
    ELSE IF amount > user.overdueFees THEN Throw("Payment amount exceeds current fees", user)
    ELSE UserNew(user.id, user.name, user.email, user.status,
                 user.currentBorrowCount, user.overdueFees - amount, user.createdAt)

suspend(user) ==
    IF user.status = SUSPENDED THEN Throw("User is already suspended", user)
    ELSE UserNew(user.id, user.name, user.email, SUSPENDED,
                 user.currentBorrowCount, user.overdueFees, user.createdAt)

activate(user) ==
    IF user.status = ACTIVE THEN Throw("User is already active", user)
    ELSE UserNew(user.id, user.name, user.email, ACTIVE,
                 user.currentBorrowCount, user.overdueFees, user.createdAt)

AVAILABLE == "AVAILABLE"
BORROWED  == "BORROWED"
RESERVED  == "RESERVED"
BookStatusValue == {AVAILABLE, BORROWED, RESERVED}

\* static readonly BORROW_PERIOD_DAYS = 14
BORROW_PERIOD_DAYS == 14

\* static readonly OVERDUE_FEE_PER_DAY = 100
OVERDUE_FEE_PER_DAY == 100

\* milliseconds in a day: a Date of the library is a number of milliseconds
MsPerDay == 1000 * 60 * 60 * 24

TheBook == "book-1"

\* the fields of a Book that borrowing reads and writes
NoBook == [id |-> "", status |-> "NONE", borrowedBy |-> NoUserId, borrowedAt |-> NullDate]

BookReconstruct(id, status, borrowedBy, borrowedAt) ==
    [id |-> id, status |-> status, borrowedBy |-> borrowedBy, borrowedAt |-> borrowedAt]

isAvailable(book) == book.status = AVAILABLE

\* Book.borrow; the clock reads now
BookBorrow(book, userId, now) ==
    IF ~isAvailable(book) THEN Throw("Book is not available for borrowing", book)
    ELSE Ok([id |-> book.id, status |-> BORROWED, borrowedBy |-> userId, borrowedAt |-> now])

\* Book.returnBook
BookReturnBook(book) ==
    IF book.status # BORROWED THEN Throw("Book is not currently borrowed", book)
    ELSE Ok([id |-> book.id, status |-> AVAILABLE, borrowedBy |-> NoUserId,
             borrowedAt |-> NullDate])

\* Book.isOverdue; daysDiff > 14 with daysDiff = (nowMs - borrowedMs) / MsPerDay
isOverdue(book, now) ==
    IF book.status # BORROWED \/ book.borrowedAt = NullDate THEN FALSE
    ELSE now - book.borrowedAt > BORROW_PERIOD_DAYS * MsPerDay

\* Book.getOverdueDays: isOverdue reads the clock (now), then the method
\* reads it again (later); Math.floor(daysDiff - 14)
getOverdueDays(book, now, later) ==
    IF ~isOverdue(book, now) \/ book.borrowedAt = NullDate THEN 0
    ELSE (later - book.borrowedAt - BORROW_PERIOD_DAYS * MsPerDay) \div MsPerDay

\* BorrowBookResult
NoResult == [success |-> FALSE, error |-> "", updatedUser |-> NoUser, updatedBook |-> NoBook]

\* one call of BorrowBookService: pc is where it stands, times the clock
\* readings it made, threw the error its promise was rejected with
IdleService == [pc |-> "idle", op |-> "", user |-> NoUser, book |-> NoBook,
                times |-> <<>>, updatedUser |-> NoUser, updatedBook |-> NoBook,
                result |-> NoResult, threw |-> ""]

\* the call returns a result
Returns(svc, result) == [svc EXCEPT !.pc = "done", !.result = result]

\* the call throws: its promise is rejected
Rejects(svc, e) == [svc EXCEPT !.pc = "done", !.threw = e]

\* BorrowBookService.execute up to its first await
executeBegin(user, book, now) ==
    LET svc == [IdleService EXCEPT !.op = "execute", !.user = user, !.book = book,
                                   !.times = <<now>>]
    IN
    IF ~canBorrow(user)
    THEN Returns(svc, [NoResult EXCEPT !.error = "User not eligible to borrow"])
    ELSE IF ~isAvailable(book)
    THEN Returns(svc, [NoResult EXCEPT !.error = "Book is not available"])
    ELSE LET updatedUser == UserBorrowBook(user) IN
         IF ~updatedUser.ok THEN Rejects(svc, updatedUser.err)
         ELSE LET updatedBook == BookBorrow(book, user.id, now) IN
              IF ~updatedBook.ok THEN Rejects(svc, updatedBook.err)
              ELSE [svc EXCEPT !.pc = "saveUser", !.updatedUser = updatedUser.val,
                               !.updatedBook = updatedBook.val]

\* BorrowBookService.returnBook up to its first await; times are the three
\* clock readings of book.isOverdue() and book.getOverdueDays()
returnBookBegin(user, book, times) ==
    LET svc == [IdleService EXCEPT !.op = "returnBook", !.user = user, !.book = book,
                                   !.times = times]
    IN
    IF book.borrowedBy = NoUserId \/ book.borrowedBy # user.id
    THEN Returns(svc, [NoResult EXCEPT !.error = "This book was not borrowed by this user"])
    ELSE LET returned == UserReturnBook(user) IN
         IF ~returned.ok THEN Rejects(svc, returned.err)
         ELSE LET overdueDays == getOverdueDays(book, times[2], times[3])
                  overdueFee  == overdueDays * OVERDUE_FEE_PER_DAY
                  updatedUser == IF isOverdue(book, times[1])
                                 THEN addOverdueFee(returned.val, overdueFee)
                                 ELSE returned
              IN IF ~updatedUser.ok THEN Rejects(svc, updatedUser.err)
                 ELSE LET updatedBook == BookReturnBook(book) IN
                      IF ~updatedBook.ok THEN Rejects(svc, updatedBook.err)
                      ELSE [svc EXCEPT !.pc = "saveUser", !.updatedUser = updatedUser.val,
                                       !.updatedBook = updatedBook.val]

\* the caller of User methods: the instance it holds and its last call
NoUserCall == [op |-> "none", amount |-> 0, before |-> NoUser, ok |-> FALSE, err |-> ""]

\* user, call: the User instance a caller holds and its last call on it
\* users, books: the saved user and the saved book of the repositories
\* svc: the call of BorrowBookService; clock: the last reading of the clock;
\* runs: the calls of the service made so far
NoLibrary == [user |-> NoUser, call |-> NoUserCall, users |-> NoUser, books |-> NoBook,
              svc |-> IdleService, clock |-> 0, runs |-> 0]

\* ------------------------------------------------------------------ state
VARIABLES order, last, app

vars == <<order, last, app>>

\* order: the latest Order instance the caller holds (NoOrder before the
\*        first successful factory call)
\* last:  the last call: its name and arguments, the receiver before and
\*        after it, and its outcome
\* app:   the application layer: the persisted order row and the use-case
\*        executions in flight (idle while the aggregate is driven directly)
appVars == <<app>>

Procs == 1..NumProcs

NoOutput == [success |-> FALSE, message |-> "", order |-> NoOrder]

\* an execution of AddItemToOrderUseCase that has not been called yet
IdleProc == [pc |-> "idle", bookId |-> "", quantity |-> 0, order |-> NoOrder,
             updatedOrder |-> NoOrder, output |-> NoOutput]

\* db: the rows of order "o1"; created: what CreateOrderUseCase returned;
\* procs: the executions of AddItemToOrderUseCase
\* an execution of PlaceOrderUseCase that has not been called yet; saved
\* tells whether its save has completed
\* the caller of publish or publishAll: events are the events still to be
\* published, returned the publish calls that have returned; off are the
\* handlers unsubscribed or cleared and not subscribed since, offAtCall
\* those that were so when the running publish was called
IdlePublishing == [pc |-> "idle", events |-> <<>>, pub |-> NoPublish, returned |-> <<>>,
                   off |-> {}, offAtCall |-> {}]

IdlePlacing == [pc |-> "idle", orderId |-> "", order |-> NoOrder, placedOrder |-> NoOrder,
                saved |-> FALSE, pub |-> NoPublish, output |-> NoOutput]

NoApp == [db |-> NoRows, created |-> NoOutput, procs |-> [p \in Procs |-> IdleProc],
          placing |-> [p \in Procs |-> IdlePlacing], bus |-> NoBus,
          publishing |-> IdlePublishing, library |-> NoLibrary]

Dates == 0..MaxClock

Max(a, b) == IF a >= b THEN a ELSE b

\* the clock never runs behind a timestamp the order already carries
LatestDate(o) ==
    Max(Max(o.createdAt, o.placedAt), Max(o.completedAt, o.cancelledAt))

Clock(o) == { d \in Dates : d >= LatestDate(o) }

NoArgs == [bookId |-> "", quantity |-> 0, unitPrice |-> NoMoney, subtotal |-> NoMoney,
           customerId |-> "", currency |-> <<>>, given |-> NoOrder,
           receiver |-> NoMoney, other |-> NoMoney, amount |-> 0, multiplier |-> 0]

Call(op, args, before, out) ==
    [op |-> op, args |-> args, before |-> before, this |-> out.this,
     ok |-> out.ok, err |-> out.err, val |-> out.val, item |-> NoItem,
     money |-> NoMoney, bool |-> FALSE]

\* a call of an OrderItem factory: no Order is involved, the result is an item
CallItem(op, args, res) ==
    [op |-> op, args |-> args, before |-> NoOrder, this |-> NoOrder,
     ok |-> res.ok, err |-> res.err, val |-> NoOrder, item |-> res.val,
     money |-> NoMoney, bool |-> FALSE]

\* a call of a Money operation that returns a Money
CallMoney(op, args, res) ==
    [op |-> op, args |-> args, before |-> NoOrder, this |-> NoOrder,
     ok |-> res.ok, err |-> res.err, val |-> NoOrder, item |-> NoItem,
     money |-> res.val, bool |-> FALSE]

\* a call of a Money operation that returns a boolean
CallBool(op, args, res) ==
    [op |-> op, args |-> args, before |-> NoOrder, this |-> NoOrder,
     ok |-> res.ok, err |-> res.err, val |-> NoOrder, item |-> NoItem,
     money |-> NoMoney, bool |-> res.val]

\* the caller keeps the returned instance, or the receiver when the call threw
Held(out) == IF out.ok THEN out.val ELSE out.this

Exists == order # NoOrder

\* nothing has been called yet: the run starts with one factory call
Fresh == last.op = "none"

\* every line quantity of the outcome stays within the explored range
WithinBounds(out) ==
    out.ok => \A i \in 1..Len(out.val.items) : out.val.items[i].quantity <= MaxQty

Init ==
    /\ order = NoOrder
    /\ app = NoApp
    /\ last = Call("none", NoArgs, NoOrder, Outcome(NoOrder, Throw("", NoOrder)))

\* Order.create; the clock reads 0 when the run starts
Create ==
    /\ Fresh
    /\ UNCHANGED appVars
    /\ \E id \in OrderIds, customerId \in CustomerIds, currency \in CurrencyInputs, date \in {0} :
         LET res == OrderCreate(id, customerId, currency, date) IN
         /\ order' = IF res.ok THEN res.val ELSE order
         /\ last' = Call("create", [NoArgs EXCEPT !.customerId = customerId, !.currency = currency],
                         NoOrder, Outcome(NoOrder, res))

AddItem ==
    /\ Exists
    /\ UNCHANGED appVars
    /\ \E bookId \in Books, quantity \in QuantityInputs, unitPrice \in Monies :
         LET out == addItem(order, bookId, quantity, unitPrice) IN
         /\ WithinBounds(out)
         /\ order' = Held(out)
         /\ last' = Call("addItem", [NoArgs EXCEPT !.bookId = bookId, !.quantity = quantity,
                                                   !.unitPrice = unitPrice], order, out)

RemoveItem ==
    /\ Exists
    /\ UNCHANGED appVars
    /\ \E bookId \in Books :
         LET out == removeItem(order, bookId) IN
         /\ order' = Held(out)
         /\ last' = Call("removeItem", [NoArgs EXCEPT !.bookId = bookId], order, out)

UpdateItemQuantity ==
    /\ Exists
    /\ UNCHANGED appVars
    /\ \E bookId \in Books, newQuantity \in QuantityInputs :
         LET out == updateItemQuantity(order, bookId, newQuantity) IN
         /\ order' = Held(out)
         /\ last' = Call("updateItemQuantity",
                         [NoArgs EXCEPT !.bookId = bookId, !.quantity = newQuantity], order, out)

Place ==
    /\ Exists
    /\ UNCHANGED appVars
    /\ \E date \in Clock(order) :
         LET out == place(order, date) IN
         /\ order' = Held(out)
         /\ last' = Call("place", NoArgs, order, out)

Complete ==
    /\ Exists
    /\ UNCHANGED appVars
    /\ \E date \in Clock(order) :
         LET out == complete(order, date) IN
         /\ order' = Held(out)
         /\ last' = Call("complete", NoArgs, order, out)

Cancel ==
    /\ Exists
    /\ UNCHANGED appVars
    /\ \E date \in Clock(order) :
         LET out == cancel(order, date) IN
         /\ order' = Held(out)
         /\ last' = Call("cancel", NoArgs, order, out)

\* Order.reconstruct(o.id, o.customerId, o.items, ...) on the getters of the
\* held order; the caller goes on with the original
RoundTrip ==
    /\ Exists
    /\ UNCHANGED appVars
    /\ LET res == OrderReconstruct(order.id, order.customerId, order.items, order.total,
                                   order.status, order.createdAt, order.placedAt,
                                   order.completedAt, order.cancelledAt) IN
       /\ order' = order
       /\ last' = Call("roundTrip", [NoArgs EXCEPT !.given = order], order, Outcome(order, res))

Next ==
    \/ Create
    \/ AddItem
    \/ RemoveItem
    \/ UpdateItemQuantity
    \/ Place
    \/ Complete
    \/ Cancel
    \/ RoundTrip

Spec == Init /\ [][Next]_vars

\* ------------------------------------------------------------------ loading
\* the rows a repository hands to OrderItem.reconstruct and Order.reconstruct
PersistedTotals ==
    { MoneyCreate(a, c).val : <<a, c>> \in (0..MaxTotal) \X {JPY, USD} }

PersistedItems ==
    { OrderItemReconstruct(x[1], x[2], x[3], x[4]).val :
        x \in { y \in Books \X (1..MaxQty) \X {m \in Monies : m.amount = 1} \X PersistedTotals :
                   OrderItemReconstruct(y[1], y[2], y[3], y[4]).ok } }

PersistedItemLists ==
    UNION { [1..n -> PersistedItems] : n \in 0..MaxLines }

PersistedDates == {NullDate} \cup Dates

\* Order.reconstruct on arbitrary persisted fields
Reconstruct ==
    /\ Fresh
    /\ UNCHANGED appVars
    /\ \E items \in PersistedItemLists, total \in PersistedTotals, status \in OrderStatusValue,
          placedAt \in PersistedDates, completedAt \in PersistedDates, cancelledAt \in PersistedDates :
         LET given == [id |-> "o1", customerId |-> "c1", items |-> items, total |-> total,
                       status |-> status, createdAt |-> 0, placedAt |-> placedAt,
                       completedAt |-> completedAt, cancelledAt |-> cancelledAt]
             res == OrderReconstruct(given.id, given.customerId, given.items, given.total,
                                     given.status, given.createdAt, given.placedAt,
                                     given.completedAt, given.cancelledAt)
         IN /\ order' = IF res.ok THEN res.val ELSE order
            /\ last' = Call("reconstruct", [NoArgs EXCEPT !.given = given], NoOrder,
                            Outcome(NoOrder, res))

\* OrderItem.create called on its own
CreateItem ==
    /\ Fresh
    /\ UNCHANGED <<order, app>>
    /\ \E bookId \in Books, quantity \in QuantityInputs, unitPrice \in Monies :
         last' = CallItem("OrderItem.create",
                          [NoArgs EXCEPT !.bookId = bookId, !.quantity = quantity,
                                         !.unitPrice = unitPrice],
                          OrderItemCreate(bookId, quantity, unitPrice))

\* OrderItem.reconstruct on arbitrary persisted fields
ReconstructItem ==
    /\ Fresh
    /\ UNCHANGED <<order, app>>
    /\ \E bookId \in Books, quantity \in QuantityInputs, unitPrice \in Monies,
          subtotal \in PersistedTotals :
         last' = CallItem("OrderItem.reconstruct",
                          [NoArgs EXCEPT !.bookId = bookId, !.quantity = quantity,
                                         !.unitPrice = unitPrice, !.subtotal = subtotal],
                          OrderItemReconstruct(bookId, quantity, unitPrice, subtotal))

NextR ==
    \/ Reconstruct
    \/ CreateItem
    \/ ReconstructItem
    \/ Create
    \/ AddItem
    \/ RemoveItem
    \/ UpdateItemQuantity
    \/ Place
    \/ Complete
    \/ Cancel
    \/ RoundTrip

SpecR == Init /\ [][NextR]_vars



\* ------------------------------------------------------------------ Money calls
\* the second operand a caller hands to a binary Money operation
Operands == Monies \cup { MoneyZero(c).val : c \in {JPY, USD} }

Multipliers == (-1)..MaxQty

\* the Money the caller holds: the last Money returned, else the receiver
\* of the last call (a Money is never changed by a call)
HeldMoney ==
    IF last.ok /\ last.money # NoMoney THEN last.money ELSE last.args.receiver

HasMoney == HeldMoney # NoMoney

MoneyWithinBounds(res) == res.ok => res.val.amount <= MaxMoney

CreateMoney ==
    /\ Fresh
    /\ UNCHANGED <<order, app>>
    /\ \E x \in MoneyInputs :
         last' = CallMoney("Money.create",
                           [NoArgs EXCEPT !.amount = x[1], !.currency = x[2]],
                           MoneyCreate(x[1], x[2]))

ZeroMoney ==
    /\ Fresh
    /\ UNCHANGED <<order, app>>
    /\ \E currency \in CurrencyInputs :
         last' = CallMoney("Money.zero", [NoArgs EXCEPT !.currency = currency],
                           MoneyZero(currency))

Add ==
    /\ HasMoney
    /\ UNCHANGED <<order, app>>
    /\ \E other \in Operands :
         LET res == MoneyAdd(HeldMoney, other) IN
         /\ MoneyWithinBounds(res)
         /\ last' = CallMoney("Money.add",
                              [NoArgs EXCEPT !.receiver = HeldMoney, !.other = other], res)

Subtract ==
    /\ HasMoney
    /\ UNCHANGED <<order, app>>
    /\ \E other \in Operands :
         last' = CallMoney("Money.subtract",
                           [NoArgs EXCEPT !.receiver = HeldMoney, !.other = other],
                           MoneySubtract(HeldMoney, other))

Multiply ==
    /\ HasMoney
    /\ UNCHANGED <<order, app>>
    /\ \E multiplier \in Multipliers :
         LET res == MoneyMultiply(HeldMoney, multiplier) IN
         /\ MoneyWithinBounds(res)
         /\ last' = CallMoney("Money.multiply",
                              [NoArgs EXCEPT !.receiver = HeldMoney, !.multiplier = multiplier],
                              res)

IsGreaterThan ==
    /\ HasMoney
    /\ UNCHANGED <<order, app>>
    /\ \E other \in Operands :
         last' = CallBool("Money.isGreaterThan",
                          [NoArgs EXCEPT !.receiver = HeldMoney, !.other = other],
                          MoneyIsGreaterThan(HeldMoney, other))

IsLessThan ==
    /\ HasMoney
    /\ UNCHANGED <<order, app>>
    /\ \E other \in Operands :
         last' = CallBool("Money.isLessThan",
                          [NoArgs EXCEPT !.receiver = HeldMoney, !.other = other],
                          MoneyIsLessThan(HeldMoney, other))

Equals ==
    /\ HasMoney
    /\ UNCHANGED <<order, app>>
    /\ \E other \in Operands :
         last' = CallBool("Money.equals",
                          [NoArgs EXCEPT !.receiver = HeldMoney, !.other = other],
                          Ok(MoneyEquals(HeldMoney, other)))

NextM ==
    \/ CreateMoney
    \/ ZeroMoney
    \/ Add
    \/ Subtract
    \/ Multiply
    \/ IsGreaterThan
    \/ IsLessThan
    \/ Equals

SpecM == Init /\ [][NextM]_vars

\* ------------------------------------------------------------------ use cases
Fail(message) == [success |-> FALSE, message |-> message, order |-> NoOrder]

Succeed(message, o) == [success |-> TRUE, message |-> message, order |-> o]

\* CreateOrderUseCase.execute: Order.create and the save that follows it
CreateOrder ==
    /\ app.created = NoOutput
    /\ UNCHANGED <<order, last>>
    /\ \E customerId \in UseCaseCustomerIds, currency \in CurrencyInputs :
         IF customerId \in BlankCustomerIds
         THEN app' = [app EXCEPT !.created = Fail("Customer ID is required")]
         ELSE LET res == OrderCreate("o1", customerId, currency, 0) IN
              IF ~res.ok
              THEN app' = [app EXCEPT !.created = Fail(res.err)]
              ELSE app' = [app EXCEPT !.db = save(app.db, res.val),
                                      !.created = Succeed("Order created successfully",
                                                          res.val)]

\* AddItemToOrderUseCase.execute up to its first await: the input check
StartAddItem(p) ==
    /\ app.procs[p].pc = "idle"
    /\ UNCHANGED <<order, last>>
    /\ \E bookId \in BookInputs, quantity \in UseCaseQuantities :
         IF quantity <= 0
         THEN app' = [app EXCEPT !.procs[p] =
                        [@ EXCEPT !.pc = "done", !.bookId = bookId, !.quantity = quantity,
                                  !.output = Fail("Quantity must be positive")]]
         ELSE app' = [app EXCEPT !.procs[p] =
                        [@ EXCEPT !.pc = "findOrder", !.bookId = bookId,
                                  !.quantity = quantity]]

\* await this.orderRepository.findById(orderId)
FindOrder(p) ==
    /\ app.procs[p].pc = "findOrder"
    /\ UNCHANGED <<order, last>>
    /\ LET found == findById(app.db) IN
       IF ~found.ok
       THEN app' = [app EXCEPT !.procs[p] = [@ EXCEPT !.pc = "done",
                                                      !.output = Fail(found.err)]]
       ELSE IF found.val = NoOrder
       THEN app' = [app EXCEPT !.procs[p] = [@ EXCEPT !.pc = "done",
                                                      !.output = Fail("Order not found")]]
       ELSE app' = [app EXCEPT !.procs[p] = [@ EXCEPT !.pc = "findBook",
                                                      !.order = found.val]]

\* await this.bookRepository.findById(input.bookId), then Money.create and
\* order.addItem, which run without another await
FindBook(p) ==
    /\ app.procs[p].pc = "findBook"
    /\ UNCHANGED <<order, last>>
    /\ LET proc      == app.procs[p]
           unitPrice == MoneyCreate(DefaultUnitPrice, proc.order.total.currency)
           out       == addItem(proc.order, proc.bookId, proc.quantity, unitPrice.val)
       IN IF proc.bookId \notin Catalog
          THEN app' = [app EXCEPT !.procs[p] = [@ EXCEPT !.pc = "done",
                                                         !.output = Fail("Book not found")]]
          ELSE IF ~unitPrice.ok
          THEN app' = [app EXCEPT !.procs[p] = [@ EXCEPT !.pc = "done",
                                                         !.output = Fail(unitPrice.err)]]
          ELSE IF ~out.ok
          THEN app' = [app EXCEPT !.procs[p] = [@ EXCEPT !.pc = "done",
                                                         !.output = Fail(out.err)]]
          ELSE app' = [app EXCEPT !.procs[p] = [@ EXCEPT !.pc = "save",
                                                         !.updatedOrder = out.val]]

\* await this.orderRepository.save(updatedOrder), then the DTO
Save(p) ==
    /\ app.procs[p].pc = "save"
    /\ UNCHANGED <<order, last>>
    /\ app' = [app EXCEPT
                 !.db = save(app.db, app.procs[p].updatedOrder),
                 !.procs[p] = [@ EXCEPT !.pc = "done",
                                        !.output = Succeed("Item added to order successfully",
                                                           app.procs[p].updatedOrder)]]

NextU ==
    \/ CreateOrder
    \/ \E p \in Procs : StartAddItem(p)
    \/ \E p \in Procs : FindOrder(p)
    \/ \E p \in Procs : FindBook(p)
    \/ \E p \in Procs : Save(p)

SpecU == Init /\ [][NextU]_vars

\* ------------------------------------------------------------------ placing
\* the order ids callers hand in; OrderId.create throws on the second
OrderIdInputs == OrderIds \cup {"not-a-uuid"}

\* orders that earlier use cases left persisted: an empty Draft order, a
\* Draft order with one line, and that order placed
SeedOrders ==
    LET empty   == OrderCreate("o1", "c1", JPY, 0).val
        oneLine == addItem(empty, "B1", 1, [amount |-> 1, currency |-> JPY]).val
    IN {empty, oneLine, place(oneLine, 0).val}

SeedOrder ==
    /\ app.db = NoRows
    /\ UNCHANGED <<order, last>>
    /\ \E o \in SeedOrders : app' = [app EXCEPT !.db = save(NoRows, o)]

\* eventBus.subscribe(handler)
Subscribe ==
    /\ UNCHANGED <<order, last>>
    /\ \E h \in Handlers :
         /\ Len(app.bus.handlers[getEventType(h)]) < MaxSubs
         /\ app' = [app EXCEPT !.bus = subscribe(app.bus, h),
                                !.publishing.off = @ \ {h},
                                !.publishing.offAtCall = @ \ {h}]

\* the call of publish and the first turn of its loop, which run without
\* an await in between
publishCall(bus, event, ok) ==
    LET pub == publishBegin(bus, event) IN
    IF publishDone(bus, pub) THEN [pub |-> pub, bus |-> bus]
    ELSE publishTurn(bus, pub, ok)

\* PlaceOrderUseCase.execute up to its first await
StartPlace(p) ==
    /\ app.placing[p].pc = "idle"
    /\ UNCHANGED <<order, last>>
    /\ \E orderId \in OrderIdInputs :
         IF orderId \notin OrderIds
         THEN app' = [app EXCEPT !.placing[p] =
                        [@ EXCEPT !.pc = "done", !.orderId = orderId,
                                  !.output = Fail("InvalidOrderId")]]
         ELSE app' = [app EXCEPT !.placing[p] =
                        [@ EXCEPT !.pc = "findOrder", !.orderId = orderId]]

\* await this.orderRepository.findById(orderId), then order.place()
FindOrderToPlace(p) ==
    /\ app.placing[p].pc = "findOrder"
    /\ UNCHANGED <<order, last>>
    /\ LET found == findById(app.db) IN
       IF ~found.ok
       THEN app' = [app EXCEPT !.placing[p] = [@ EXCEPT !.pc = "done",
                                                        !.output = Fail(found.err)]]
       ELSE IF found.val = NoOrder
       THEN app' = [app EXCEPT !.placing[p] = [@ EXCEPT !.pc = "done",
                                                        !.output = Fail("Order not found")]]
       ELSE \E date \in Clock(found.val) :
              LET out == place(found.val, date) IN
              IF ~out.ok
              THEN app' = [app EXCEPT !.placing[p] =
                             [@ EXCEPT !.pc = "done", !.order = found.val,
                                       !.output = Fail(out.err)]]
              ELSE app' = [app EXCEPT !.placing[p] =
                             [@ EXCEPT !.pc = "save", !.order = found.val,
                                       !.placedOrder = out.val]]

\* await this.orderRepository.save(placedOrder): the transaction commits,
\* and the event is built and publish called; or it throws and rolls back
SavePlaced(p) ==
    /\ app.placing[p].pc = "save"
    /\ UNCHANGED <<order, last>>
    /\ \/ \E ok \in BOOLEAN :
            LET event == OrderPlacedEventNew(p, app.placing[p].placedOrder)
                call  == publishCall(app.bus, event, ok)
            IN app' = [app EXCEPT !.db = save(app.db, app.placing[p].placedOrder),
                                  !.bus = call.bus,
                                  !.placing[p] = [@ EXCEPT !.pc = "publish", !.saved = TRUE,
                                                           !.pub = call.pub]]
       \/ app' = [app EXCEPT !.placing[p] = [@ EXCEPT !.pc = "done",
                                                      !.output = Fail("save failed")]]

\* await this.eventBus.publish(event): the later turns of the loop, then
\* the DTO
PublishPlaced(p) ==
    /\ app.placing[p].pc = "publish"
    /\ UNCHANGED <<order, last>>
    /\ IF publishDone(app.bus, app.placing[p].pub)
       THEN app' = [app EXCEPT !.placing[p] =
                      [@ EXCEPT !.pc = "done",
                                !.output = Succeed("Order placed successfully",
                                                   app.placing[p].placedOrder)]]
       ELSE \E ok \in BOOLEAN :
              LET turn == publishTurn(app.bus, app.placing[p].pub, ok) IN
              app' = [app EXCEPT !.bus = turn.bus,
                                 !.placing[p] = [@ EXCEPT !.pub = turn.pub]]

NextP ==
    \/ SeedOrder
    \/ Subscribe
    \/ \E p \in Procs : StartPlace(p)
    \/ \E p \in Procs : FindOrderToPlace(p)
    \/ \E p \in Procs : SavePlaced(p)
    \/ \E p \in Procs : PublishPlaced(p)

SpecP == Init /\ [][NextP]_vars

\* the executions of AddItemToOrderUseCase and of PlaceOrderUseCase on one
\* persisted order, each free to run between the awaits of the others
NextA ==
    \/ SeedOrder
    \/ \E p \in Procs : StartAddItem(p)
    \/ \E p \in Procs : FindOrder(p)
    \/ \E p \in Procs : FindBook(p)
    \/ \E p \in Procs : Save(p)
    \/ \E p \in Procs : StartPlace(p)
    \/ \E p \in Procs : FindOrderToPlace(p)
    \/ \E p \in Procs : SavePlaced(p)
    \/ \E p \in Procs : PublishPlaced(p)

SpecA == Init /\ [][NextA]_vars

\* ------------------------------------------------------------------ publishing
\* the event arrays handed to publishAll
EventArrays == UNION { [1..n -> EventTypes] : n \in 1..2 }

\* the k-th event the caller creates
EventOf(k, eventType) == [NoEvent EXCEPT !.eventId = k, !.eventType = eventType]

\* removing h from the handlers that have stayed subscribed since the call
StillSubscribed(pub, h) ==
    LET index == IndexOf(pub.since, h) IN
    IF index = 0 THEN pub
    ELSE [pub EXCEPT !.since = SubSeq(@, 1, index - 1) \o SubSeq(@, index + 1, Len(@))]

\* eventBus.unsubscribe(handler), called before publish or while publish
\* is waiting for a handler
Unsubscribe ==
    /\ app.publishing.pc # "done"
    /\ UNCHANGED <<order, last>>
    /\ \E h \in Handlers :
         LET pg == app.publishing IN
         /\ IndexOf(app.bus.handlers[getEventType(h)], h) > 0
         /\ app' = [app EXCEPT
                      !.bus = unsubscribe(app.bus, h),
                      !.publishing.off = @ \cup {h},
                      !.publishing.pub =
                          IF pg.pub.live /\ pg.pub.event.eventType = getEventType(h)
                          THEN StillSubscribed(pg.pub, h)
                          ELSE pg.pub]

\* eventBus.clearHandlers(): the Map is emptied; a loop that is running
\* keeps the array it was given
ClearHandlers ==
    /\ app.publishing.pc # "done"
    /\ app.bus.keys # {}
    /\ UNCHANGED <<order, last>>
    /\ LET pg == app.publishing IN
       app' = [app EXCEPT
                 !.bus = clearHandlers(app.bus),
                 !.publishing.off = Handlers,
                 !.publishing.pub =
                     IF pg.pub.live
                     THEN [pg.pub EXCEPT !.live = FALSE,
                                         !.arr = ArrayOf(app.bus, pg.pub),
                                         !.since = <<>>]
                     ELSE pg.pub]

\* what is kept of a publish call that has returned
Returned(pub) == [event |-> pub.event, since |-> pub.since]

\* eventBus.publish(event)
Publish ==
    /\ app.publishing.pc = "idle"
    /\ UNCHANGED <<order, last>>
    /\ \E eventType \in EventTypes :
         LET call == publishCall(app.bus, EventOf(1, eventType), TRUE) IN
         app' = [app EXCEPT !.bus = call.bus,
                            !.publishing = [@ EXCEPT !.pc = "publishing", !.pub = call.pub,
                                                     !.offAtCall = app.publishing.off]]

\* eventBus.publishAll(events): publish is called for the first event
PublishAll ==
    /\ app.publishing.pc = "idle"
    /\ UNCHANGED <<order, last>>
    /\ \E types \in EventArrays :
         LET events == [k \in 1..Len(types) |-> EventOf(k, types[k])]
             call   == publishCall(app.bus, events[1], TRUE)
         IN app' = [app EXCEPT !.bus = call.bus,
                               !.publishing = [@ EXCEPT !.pc = "publishing",
                                                        !.events = Tail(events),
                                                        !.pub = call.pub,
                                                        !.offAtCall = app.publishing.off]]

\* the awaited handler has returned: the loop of publish takes its next
\* turn, or publish returns and publishAll calls it for the next event, or
\* the caller is done
Turn ==
    /\ app.publishing.pc = "publishing"
    /\ UNCHANGED <<order, last>>
    /\ LET pg == app.publishing IN
       IF ~publishDone(app.bus, pg.pub)
       THEN LET turn == publishTurn(app.bus, pg.pub, TRUE) IN
            app' = [app EXCEPT !.bus = turn.bus, !.publishing.pub = turn.pub]
       ELSE IF pg.events # <<>>
       THEN LET call == publishCall(app.bus, Head(pg.events), TRUE) IN
            app' = [app EXCEPT !.bus = call.bus,
                               !.publishing = [@ EXCEPT !.events = Tail(@), !.pub = call.pub,
                                                        !.offAtCall = pg.off,
                                                        !.returned = Append(@, Returned(pg.pub))]]
       ELSE app' = [app EXCEPT !.publishing = [@ EXCEPT !.pc = "done", !.pub = NoPublish,
                                                        !.returned = Append(@, Returned(pg.pub))]]

NextB ==
    \/ Subscribe
    \/ Unsubscribe
    \/ ClearHandlers
    \/ Publish
    \/ PublishAll
    \/ Turn

SpecB == Init /\ [][NextB]_vars

\* ------------------------------------------------------------------ users
\* amounts handed to addOverdueFee and payOverdueFee
FeeInputs == {-1, 0, 1, MaxFees}

HasUser == app.library.user # NoUser

\* the caller keeps the returned User, or the receiver when the call threw
UserCall(op, amount, res) ==
    [app EXCEPT !.library.user = IF res.ok THEN res.val ELSE @,
                !.library.call = [op |-> op, amount |-> amount, before |-> app.library.user,
                                  ok |-> res.ok, err |-> res.err]]

\* User.create
CreateUser ==
    /\ Fresh
    /\ app.library.call.op = "none"
    /\ UNCHANGED <<order, last>>
    /\ \E name \in NameInputs, email \in EmailInputs :
         app' = UserCall("create", 0, UserCreate(TheUser, name, email, 0))

BorrowBook ==
    /\ HasUser
    /\ UNCHANGED <<order, last>>
    /\ app' = UserCall("borrowBook", 0, UserBorrowBook(app.library.user))

ReturnBook ==
    /\ HasUser
    /\ UNCHANGED <<order, last>>
    /\ app' = UserCall("returnBook", 0, UserReturnBook(app.library.user))

AddOverdueFee ==
    /\ HasUser
    /\ UNCHANGED <<order, last>>
    /\ \E amount \in FeeInputs :
         LET res == addOverdueFee(app.library.user, amount) IN
         /\ res.ok => res.val.overdueFees <= MaxFees
         /\ app' = UserCall("addOverdueFee", amount, res)

PayOverdueFee ==
    /\ HasUser
    /\ UNCHANGED <<order, last>>
    /\ \E amount \in FeeInputs :
         app' = UserCall("payOverdueFee", amount, payOverdueFee(app.library.user, amount))

Suspend ==
    /\ HasUser
    /\ UNCHANGED <<order, last>>
    /\ app' = UserCall("suspend", 0, suspend(app.library.user))

Activate ==
    /\ HasUser
    /\ UNCHANGED <<order, last>>
    /\ app' = UserCall("activate", 0, activate(app.library.user))

NextUser ==
    \/ CreateUser
    \/ BorrowBook
    \/ ReturnBook
    \/ AddOverdueFee
    \/ PayOverdueFee
    \/ Suspend
    \/ Activate

SpecUser == Init /\ [][NextUser]_vars

\* ------------------------------------------------------------------ borrowing
\* the clock readings: the start, and around each full day from the end of
\* the borrow period on
Times ==
    {0} \cup { (BORROW_PERIOD_DAYS + k) * MsPerDay + e : k \in 0..MaxLateDays, e \in {0, 1} }

\* the saved user and book the run starts with: a book borrowed by the
\* user is one of the books the user's count counts
SeedLibrary ==
    /\ Fresh
    /\ app.library.call.op = "none"
    /\ app.library.users = NoUser
    /\ UNCHANGED <<order, last>>
    /\ \E status \in UserStatusValue, count \in 0..MAX_BORROW_LIMIT,
          fees \in {0, OVERDUE_FEE_PER_DAY},
          book \in {BookReconstruct(TheBook, AVAILABLE, NoUserId, NullDate),
                    BookReconstruct(TheBook, RESERVED, NoUserId, NullDate)}
                   \cup {BookReconstruct(TheBook, BORROWED, id, 0) : id \in UserIds} :
         LET user == UserReconstruct(TheUser, "Ann", "ann@lib", status, count, fees, 0) IN
         /\ book.borrowedBy = TheUser => count > 0
         /\ app' = [app EXCEPT !.library.users = user.val, !.library.books = book]

\* the service can be called: the use case has found the user and the book
CanCall ==
    /\ app.library.users # NoUser
    /\ app.library.svc.pc \in {"idle", "done"}
    /\ app.library.runs < MaxRuns

\* BorrowBookService.execute(user, book) with the saved user and book
Execute ==
    /\ CanCall
    /\ UNCHANGED <<order, last>>
    /\ \E now \in Times :
         /\ now >= app.library.clock
         /\ app' = [app EXCEPT
                      !.library.svc = executeBegin(app.library.users, app.library.books, now),
                      !.library.clock = now,
                      !.library.runs = @ + 1]

\* BorrowBookService.returnBook(user, book) with the saved user and book
Return ==
    /\ CanCall
    /\ UNCHANGED <<order, last>>
    /\ \E t1, t2, t3 \in Times :
         /\ app.library.clock <= t1 /\ t1 <= t2 /\ t2 <= t3
         /\ app' = [app EXCEPT
                      !.library.svc = returnBookBegin(app.library.users, app.library.books,
                                                      <<t1, t2, t3>>),
                      !.library.clock = t3,
                      !.library.runs = @ + 1]

\* await this.userRepository.save(updatedUser): the user is saved, or the
\* save fails and the call is rejected
SaveUser ==
    /\ app.library.svc.pc = "saveUser"
    /\ UNCHANGED <<order, last>>
    /\ \/ app' = [app EXCEPT !.library.users = app.library.svc.updatedUser,
                             !.library.svc.pc = "saveBook"]
       \/ app' = [app EXCEPT !.library.svc = Rejects(@, "save failed")]

\* await this.bookRepository.save(updatedBook), then return the result
SaveBook ==
    /\ app.library.svc.pc = "saveBook"
    /\ UNCHANGED <<order, last>>
    /\ LET svc == app.library.svc IN
       \/ app' = [app EXCEPT
                    !.library.books = svc.updatedBook,
                    !.library.svc = Returns(svc, [success |-> TRUE, error |-> "",
                                                  updatedUser |-> svc.updatedUser,
                                                  updatedBook |-> svc.updatedBook])]
       \/ app' = [app EXCEPT !.library.svc = Rejects(@, "save failed")]

NextL ==
    \/ SeedLibrary
    \/ Execute
    \/ Return
    \/ SaveUser
    \/ SaveBook

SpecL == Init /\ [][NextL]_vars

\* ------------------------------------------------------------------ claims
ItemCommands   == {"addItem", "removeItem", "updateItemQuantity"}
StatusCommands == {"place", "complete", "cancel"}
Commands       == ItemCommands \cup StatusCommands

RECURSIVE SumSubtotalAmounts(_)
SumSubtotalAmounts(items) ==
    IF items = <<>> THEN 0
    ELSE Head(items).subtotal.amount + SumSubtotalAmounts(Tail(items))

\* total is the sum of the lines' subtotals, in their currency
TotalIsSum(total, items) ==
    /\ total.amount = SumSubtotalAmounts(items)
    /\ \A i \in 1..Len(items) : items[i].subtotal.currency = total.currency

\* C1: after Order.create and after every successful command, order.total
\* equals the sum of the subtotals of order.items, and is zero when there are
\* no items.
C1_TotalEqualsSum ==
    Exists =>
        /\ TotalIsSum(order.total, order.items)
        /\ (order.items = <<>> => order.total.amount = 0)
        /\ (last.ok => TotalIsSum(last.val.total, last.val.items))

C1_Witness ==
    /\ last.op = "updateItemQuantity"
    /\ last.ok
    /\ Len(order.items) = 2
    /\ order.total.amount = 3

\* C2: the status changes only Draft->Placed by place, Placed->Completed by
\* complete, and Draft->Cancelled or Placed->Cancelled by cancel; the item
\* commands never change it.
C2_StatusStep ==
    Exists =>
        /\ last'.op \in ItemCommands => order'.status = order.status
        /\ order'.status # order.status =>
              \/ order.status = DRAFT  /\ order'.status = PLACED    /\ last'.op = "place"
              \/ order.status = PLACED /\ order'.status = COMPLETED /\ last'.op = "complete"
              \/ order.status = DRAFT  /\ order'.status = CANCELLED /\ last'.op = "cancel"
              \/ order.status = PLACED /\ order'.status = CANCELLED /\ last'.op = "cancel"

C2_StatusMachine == [][C2_StatusStep]_vars

C2_Witness ==
    /\ last.op = "complete"
    /\ last.ok
    /\ last.before.status = PLACED
    /\ order.status = COMPLETED

\* C3: on a Completed or Cancelled order complete() and cancel() fail with
\* InvalidStatusTransition, place() fails too, and no call changes the status
\* any more.
C3_SealedStep ==
    isTerminal(order.status) =>
        /\ order'.status = order.status
        /\ last'.op \in {"complete", "cancel"} =>
              ~last'.ok /\ last'.err = "InvalidStatusTransition"
        /\ last'.op = "place" => ~last'.ok

C3_TerminalSealed == [][C3_SealedStep]_vars

C3_Witness ==
    /\ last.op = "complete"
    /\ ~last.ok
    /\ last.err = "InvalidStatusTransition"
    /\ last.before.status = CANCELLED
    /\ order.status = CANCELLED

\* C4: addItem, removeItem and updateItemQuantity on a Placed, Completed or
\* Cancelled order fail with OrderNotModifiable whatever the arguments,
\* return no Order and leave the receiver as it was.
C4_DraftOnlyMutation ==
    (last.op \in ItemCommands /\ last.before.status \in {PLACED, COMPLETED, CANCELLED}) =>
        /\ ~last.ok
        /\ last.err = "OrderNotModifiable"
        /\ last.val = NoOrder
        /\ last.this = last.before
        /\ order = last.before

\* a non-positive quantity for a book the Placed order does not hold
C4_Witness ==
    /\ last.op = "updateItemQuantity"
    /\ last.before.status = PLACED
    /\ last.args.quantity = 0
    /\ findIndex(last.before.items, last.args.bookId) = 0
    /\ last.err = "OrderNotModifiable"

StatusHasTimestamp(o) ==
    /\ o.status = PLACED    => o.placedAt # NullDate
    /\ o.status = COMPLETED => o.completedAt # NullDate
    /\ o.status = CANCELLED => o.cancelledAt # NullDate

\* C5: every Order that exists (created, reconstructed or returned by a
\* command) has placedAt when Placed, completedAt when Completed and
\* cancelledAt when Cancelled.
C5_StatusTimestamps ==
    /\ Exists => StatusHasTimestamp(order)
    /\ last.ok => StatusHasTimestamp(last.val)

\* a reconstructed Completed order, then cancelled orders keep the rule too
C5_Witness ==
    /\ last.op = "reconstruct"
    /\ last.ok
    /\ order.status = COMPLETED
    /\ order.placedAt = NullDate
    /\ order.completedAt # NullDate

\* C6: whether a command succeeds or fails, the receiver's fields are the
\* same after the call as before it.
C6_ReceiverUnchanged ==
    last.op \in Commands => last.this = last.before

C6_Witness ==
    /\ last.op = "addItem"
    /\ last.ok
    /\ last.val.items # last.before.items
    /\ last.this = last.before
    /\ Len(last.before.items) = 1

\* C7: place() succeeds exactly when the order is Draft and has items;
\* otherwise it fails with CannotPlaceEmptyOrder and returns no Order.
C7_PlaceIffCanPlace ==
    last.op = "place" =>
        /\ last.ok <=> (Len(last.before.items) > 0 /\ last.before.status = DRAFT)
        /\ last.ok => last.val.status = PLACED
        /\ ~last.ok => (last.err = "CannotPlaceEmptyOrder" /\ last.val = NoOrder)

\* the freshly created empty Draft order
C7_Witness ==
    /\ last.op = "place"
    /\ ~last.ok
    /\ last.err = "CannotPlaceEmptyOrder"
    /\ last.before.status = DRAFT
    /\ last.before.items = <<>>

LinesFor(items, bookId) == { i \in 1..Len(items) : items[i].bookId = bookId }

MergedLine(bookId, quantity, unitPrice) ==
    [bookId |-> bookId, quantity |-> quantity, unitPrice |-> unitPrice,
     subtotal |-> [amount |-> unitPrice.amount * quantity, currency |-> unitPrice.currency]]

\* C8: a successful addItem(bookId, q, p) on an order with a line for bookId
\* of quantity q0 leaves exactly one line for bookId, at the same position,
\* with quantity q0+q, unit price p and subtotal p*(q0+q), the other lines
\* and the number of lines unchanged; when bookId is absent the line
\* (bookId, q, p) is appended at the end.
C8_MergeOnAdd ==
    (last.op = "addItem" /\ last.ok) =>
        LET old  == last.before.items
            new  == last.val.items
            b    == last.args.bookId
            q    == last.args.quantity
            p    == last.args.unitPrice
        IN IF LinesFor(old, b) # {}
           THEN LET i == CHOOSE j \in LinesFor(old, b) : TRUE IN
                /\ LinesFor(new, b) = {i}
                /\ Len(new) = Len(old)
                /\ new[i] = MergedLine(b, old[i].quantity + q, p)
                /\ \A j \in 1..Len(old) : j # i => new[j] = old[j]
           ELSE new = Append(old, MergedLine(b, q, p))

\* a merge into the second line at a new price
C8_Witness ==
    /\ last.op = "addItem"
    /\ last.ok
    /\ Len(last.before.items) = 2
    /\ last.before.items[2].bookId = last.args.bookId
    /\ last.before.items[2].unitPrice # last.args.unitPrice
    /\ last.val.items[2].quantity = 2

\* C9: Order.reconstruct on the getters of an order reached from
\* Order.create by commands succeeds and yields an order equal to it in
\* every field.
C9_RoundTrip ==
    last.op = "roundTrip" => (last.ok /\ last.val = last.before)

C9_Witness ==
    /\ last.op = "roundTrip"
    /\ last.ok
    /\ last.before.status = CANCELLED
    /\ last.before.placedAt # NullDate
    /\ Len(last.before.items) = 2

\* C10: Order.reconstruct fails, returning no Order, whenever the given
\* total differs from the sum of the given items' subtotals, or the status
\* is Placed, Completed or Cancelled while its timestamp is null.
C10_ReconstructValidates ==
    last.op = "reconstruct" =>
        LET g == last.args.given IN
        (~TotalIsSum(g.total, g.items) \/ ~StatusHasTimestamp(g)) =>
            (~last.ok /\ last.val = NoOrder /\ ~Exists)

\* a Draft order whose two lines do not add up to the given total
C10_Witness ==
    /\ last.op = "reconstruct"
    /\ ~last.ok
    /\ last.args.given.status = DRAFT
    /\ Len(last.args.given.items) = 2
    /\ last.args.given.total.currency = last.args.given.items[1].subtotal.currency
    /\ last.args.given.total.currency = last.args.given.items[2].subtotal.currency
    /\ last.args.given.total.amount # SumSubtotalAmounts(last.args.given.items)

\* C11: once an order has left Draft its items and total are frozen: the
\* step that leaves Draft (place or cancel) and every later step keep the
\* items and the total the order had while it was Draft.
C11_FrozenStep ==
    (Exists /\ (order.status # DRAFT \/ order'.status # DRAFT)) =>
        /\ order'.items = order.items
        /\ order'.total = order.total

C11_FrozenAfterDraft == [][C11_FrozenStep]_vars

\* a Draft order of two lines placed, then cancelled
C11_Witness ==
    /\ last.op = "cancel"
    /\ last.ok
    /\ last.before.status = PLACED
    /\ Len(order.items) = 2
    /\ order.items = last.before.items
    /\ order.total.amount = 4

\* C12: in every Order reached from Order.create by commands no two items
\* have the same bookId.
C12_UniqueBookIds ==
    Exists =>
        \A i, j \in 1..Len(order.items) :
            i # j => order.items[i].bookId # order.items[j].bookId

\* a second addItem for the book of the first line of a two-line order
C12_Witness ==
    /\ last.op = "addItem"
    /\ last.ok
    /\ Len(last.before.items) = 2
    /\ last.before.items[1].bookId = last.args.bookId
    /\ Len(order.items) = 2
    /\ order.items[1].quantity = 2

\* C13: the order Order.create(customerId, currency) returns is Draft, has
\* no items, a zero total in the given currency, createdAt set and placedAt,
\* completedAt and cancelledAt null; canModify() is true and canPlace() false.
C13_CreatedOrder ==
    (last.op = "create" /\ last.ok) =>
        /\ last.val.status = DRAFT
        /\ last.val.items = <<>>
        /\ last.val.total = [amount |-> 0, currency |-> last.args.currency]
        /\ last.val.customerId = last.args.customerId
        /\ last.val.createdAt # NullDate
        /\ last.val.placedAt = NullDate
        /\ last.val.completedAt = NullDate
        /\ last.val.cancelledAt = NullDate
        /\ canModify(last.val)
        /\ ~canPlace(last.val)
        /\ order = last.val

C13_Witness ==
    /\ last.op = "create"
    /\ last.ok
    /\ last.args.currency = USD
    /\ last.args.customerId = "c1"
    /\ order.total.currency = USD

\* C14 as stated: Order.create fails with InvalidCustomerId, returning no
\* Order, whenever customerId is empty.
C14_EmptyCustomerRejected ==
    (last.op = "create" /\ last.args.customerId = "") =>
        (~last.ok /\ last.err = "InvalidCustomerId" /\ ~Exists)

\* C14 as amended: Order.create does not look at customerId: with an empty
\* customerId it fails only when the currency is not a valid code, and
\* otherwise returns a Draft order that carries the empty customerId.
C14_EmptyCustomerAccepted ==
    (last.op = "create" /\ last.args.customerId = "") =>
        /\ last.ok <=> last.args.currency \in {JPY, USD}
        /\ ~last.ok => last.err = "InvalidMoney"
        /\ last.ok => (last.val.customerId = "" /\ last.val.status = DRAFT /\ order = last.val)

C14_Witness ==
    /\ last.op = "create"
    /\ last.args.customerId = ""
    /\ last.ok
    /\ order.customerId = ""
    /\ order.status = DRAFT

\* C15 as stated: OrderItem.create fails with InvalidQuantity for every
\* quantity <= 0, and so does Order.addItem on a Draft order for a bookId
\* that is not yet in the order.
C15_NonPositiveQuantityIsInvalidQuantity ==
    /\ (last.op = "OrderItem.create" /\ last.args.quantity <= 0) =>
           (~last.ok /\ last.err = "InvalidQuantity")
    /\ ( /\ last.op = "addItem"
         /\ last.before.status = DRAFT
         /\ findIndex(last.before.items, last.args.bookId) = 0
         /\ last.args.quantity <= 0 ) =>
           (~last.ok /\ last.err = "InvalidQuantity")

\* the line's quantity is positive and its subtotal is unit price x quantity
LineIsExact(item) ==
    /\ item.quantity > 0
    /\ item.subtotal = [amount |-> item.unitPrice.amount * item.quantity,
                        currency |-> item.unitPrice.currency]

LinesAreExact(o) == \A i \in 1..Len(o.items) : LineIsExact(o.items[i])

\* the subtotal handed to OrderItem.reconstruct is not unit price x quantity
GivenSubtotalDiffers ==
    last.args.subtotal # [amount |-> last.args.unitPrice.amount * last.args.quantity,
                          currency |-> last.args.unitPrice.currency]

\* C16 as stated: every item of every Order has quantity > 0 and subtotal =
\* unit price x quantity, and OrderItem.reconstruct with a subtotal that
\* differs from unit price x quantity fails with SubtotalMismatch.
C16_DifferingSubtotalIsMismatch ==
    /\ Exists => LinesAreExact(order)
    /\ (last.op = "OrderItem.reconstruct" /\ GivenSubtotalDiffers) =>
           (~last.ok /\ last.err = "SubtotalMismatch")

\* C16 as amended: every item of every Order, and every item a factory
\* returns, has quantity > 0 and subtotal = unit price x quantity in the unit
\* price's currency; OrderItem.reconstruct checks the quantity first, so it
\* fails with InvalidQuantity when quantity <= 0 whatever the subtotal, and
\* with SubtotalMismatch when quantity > 0 and the subtotal differs.
C16_ExactLines ==
    /\ Exists => LinesAreExact(order)
    /\ last.ok => LinesAreExact(last.val)
    /\ (last.op \in {"OrderItem.create", "OrderItem.reconstruct"} /\ last.ok) =>
           LineIsExact(last.item)
    /\ last.op = "OrderItem.reconstruct" =>
           /\ last.args.quantity <= 0 => (~last.ok /\ last.err = "InvalidQuantity")
           /\ (last.args.quantity > 0 /\ GivenSubtotalDiffers) =>
                  (~last.ok /\ last.err = "SubtotalMismatch")
           /\ ~last.ok => last.item = NoItem

\* a two-unit line handed over with the subtotal of one unit
C16_Witness ==
    /\ last.op = "OrderItem.reconstruct"
    /\ last.args.quantity = 2
    /\ last.args.subtotal = last.args.unitPrice
    /\ ~last.ok
    /\ last.err = "SubtotalMismatch"
    /\ last.item = NoItem

MixedCurrencies == last.args.receiver.currency # last.args.other.currency

\* C17: add, subtract, isGreaterThan and isLessThan on two Money values of
\* different currencies always fail with CurrencyMismatch (subtract does so
\* even when the result would be negative), while equals on different
\* currencies returns false without failing.
C17_CurrencyDiscipline ==
    /\ ( /\ last.op \in {"Money.add", "Money.subtract",
                         "Money.isGreaterThan", "Money.isLessThan"}
         /\ MixedCurrencies ) =>
           (~last.ok /\ last.err = "CurrencyMismatch" /\ last.money = NoMoney)
    /\ (last.op = "Money.equals" /\ MixedCurrencies) =>
           (last.ok /\ last.bool = FALSE)

\* subtracting more yen from fewer dollars
C17_Witness ==
    /\ last.op = "Money.subtract"
    /\ last.args.receiver.currency = USD
    /\ last.args.other.currency = JPY
    /\ last.args.other.amount > last.args.receiver.amount
    /\ ~last.ok
    /\ last.err = "CurrencyMismatch"

ReturnsMoney ==
    last.op \in {"Money.create", "Money.zero", "Money.add", "Money.subtract", "Money.multiply"}

\* the parts of C18 that do not involve two operands
NoNegativeMoney ==
    /\ (last.op = "Money.create" /\ last.args.amount < 0) =>
           (~last.ok /\ last.err = "InvalidMoney")
    /\ (last.op = "Money.multiply" /\ last.args.multiplier < 0) =>
           (~last.ok /\ last.err = "InvalidMultiplier")
    /\ (ReturnsMoney /\ last.ok) => last.money.amount >= 0
    /\ (ReturnsMoney /\ ~last.ok) => last.money = NoMoney

\* C18 as stated: no Money with a negative amount is produced; create with
\* amount < 0 fails with InvalidMoney, a.subtract(b) with b.amount > a.amount
\* fails with NegativeResult and gives zero when the amounts are equal,
\* multiply by a negative scalar fails with InvalidMultiplier.
C18_SubtractByAmountsAlone ==
    /\ NoNegativeMoney
    /\ last.op = "Money.subtract" =>
           /\ last.args.other.amount > last.args.receiver.amount =>
                  (~last.ok /\ last.err = "NegativeResult")
           /\ last.args.other.amount = last.args.receiver.amount =>
                  (last.ok /\ last.money.amount = 0)

\* C18 as amended: the same, with the two statements about subtract holding
\* for operands of one currency; with two currencies subtract fails with
\* CurrencyMismatch whatever the amounts.
C18_NoNegativeMoney ==
    /\ NoNegativeMoney
    /\ (last.op = "Money.subtract" /\ ~MixedCurrencies) =>
           /\ last.args.other.amount > last.args.receiver.amount =>
                  (~last.ok /\ last.err = "NegativeResult")
           /\ last.args.other.amount = last.args.receiver.amount =>
                  (last.ok /\ last.money = [amount |-> 0,
                                            currency |-> last.args.receiver.currency])
           /\ last.args.other.amount < last.args.receiver.amount =>
                  (last.ok /\ last.money.amount =
                                 last.args.receiver.amount - last.args.other.amount)
    /\ (last.op = "Money.subtract" /\ MixedCurrencies) =>
           (~last.ok /\ last.err = "CurrencyMismatch")

\* one yen minus two yen
C18_Witness ==
    /\ last.op = "Money.subtract"
    /\ last.args.receiver = [amount |-> 1, currency |-> JPY]
    /\ last.args.other = [amount |-> 2, currency |-> JPY]
    /\ ~last.ok
    /\ last.err = "NegativeResult"
    /\ last.money = NoMoney

\* all subtotals and the total are in the currency of the first item
OneCurrency(o) ==
    Len(o.items) > 0 =>
        /\ \A i \in 1..Len(o.items) :
             o.items[i].subtotal.currency = o.items[1].subtotal.currency
        /\ o.total.currency = o.items[1].subtotal.currency

\* the line addItem builds: the quantities are added when the book is there
AddedLine ==
    LET k == findIndex(last.before.items, last.args.bookId) IN
    OrderItemCreate(last.args.bookId,
                    IF k = 0 THEN last.args.quantity
                    ELSE last.before.items[k].quantity + last.args.quantity,
                    last.args.unitPrice)

\* the item list addItem builds: the line replaced in place, or appended
ResultingItems ==
    LET k == findIndex(last.before.items, last.args.bookId) IN
    IF k = 0 THEN Append(last.before.items, AddedLine.val)
    ELSE ReplaceAt(last.before.items, k, AddedLine.val)

TwoCurrencies(items) ==
    \E i, j \in 1..Len(items) : items[i].subtotal.currency # items[j].subtotal.currency

\* C19: in every Order with at least one item, all item subtotals and the
\* total share the currency of the first item; an addItem on a Draft order
\* whose resulting item list would contain items of two currencies fails
\* with CurrencyMismatch, returns no Order and leaves the receiver as it was.
C19_OneCurrencyPerOrder ==
    /\ Exists => OneCurrency(order)
    /\ last.ok => OneCurrency(last.val)
    /\ ( /\ last.op = "addItem"
         /\ last.before.status = DRAFT
         /\ AddedLine.ok
         /\ TwoCurrencies(ResultingItems) ) =>
           /\ ~last.ok
           /\ last.err = "CurrencyMismatch"
           /\ last.val = NoOrder
           /\ order = last.before

\* a dollar line added to a Draft order that holds a yen line
C19_Witness ==
    /\ last.op = "addItem"
    /\ last.before.status = DRAFT
    /\ Len(last.before.items) = 1
    /\ last.before.items[1].subtotal.currency = JPY
    /\ last.args.unitPrice.currency = USD
    /\ last.args.bookId # last.before.items[1].bookId
    /\ last.args.quantity = 1
    /\ ~last.ok
    /\ last.err = "CurrencyMismatch"
    /\ order = last.before

HasLineFor(items, bookId) == \E i \in 1..Len(items) : items[i].bookId = bookId

\* C20: PrismaOrderRepository.save compares nothing: whenever an execution
\* of AddItemToOrderUseCase saves, whatever has been saved since it loaded
\* the order, the save succeeds, the caller is told so, and the persisted
\* order becomes exactly the version that execution computed. (The state in
\* which a successful change is missing is C20_Witness.)
C20_SaveStep ==
    \A p \in Procs :
        (app.procs[p].pc = "save" /\ app'.procs[p].pc = "done") =>
            /\ app'.procs[p].output.success
            /\ app'.procs[p].output.order = app.procs[p].updatedOrder
            /\ app'.db.items = [i \in 1..Len(app.procs[p].updatedOrder.items) |->
                                   ItemRow(app.procs[p].updatedOrder.items[i])]
            /\ findById(app'.db) = Ok(app.procs[p].updatedOrder)

C20_SaveOverwrites == [][C20_SaveStep]_vars

\* both executions loaded the same order and both report success, the first
\* for B1 and the second for B2, yet the persisted order has no line for B1
C20_Witness ==
    /\ app.procs[1].pc = "done"
    /\ app.procs[2].pc = "done"
    /\ app.procs[1].output.success
    /\ app.procs[2].output.success
    /\ app.procs[1].order = app.procs[2].order
    /\ app.procs[1].bookId = "B1"
    /\ app.procs[2].bookId = "B2"
    /\ HasLineFor(app.procs[1].output.order.items, "B1")
    /\ ~HasLineFor(app.db.items, "B1")
    /\ HasLineFor(app.db.items, "B2")

\* execution p of PlaceOrderUseCase has called eventBus.publish
HasPublished(p) == app.placing[p].pub # NoPublish

\* some handler has been handed the event of execution p
Delivered(p) == \E k \in 1..Len(app.bus.log) : app.bus.log[k].event.eventId = p

\* order.place() fails on the order that execution p loaded
PlaceFails(p) ==
    LET o == app.placing[p].order IN
    o # NoOrder /\ (Len(o.items) = 0 \/ o.status # DRAFT)

\* C21: PlaceOrderUseCase.execute publishes its OrderPlacedEvent only after
\* place() has succeeded and the save has completed; an execution that ends
\* without success because the order id is malformed, the order is not
\* found, place() fails or the save fails has published nothing, and one
\* whose place() fails has saved nothing.
C21_PublishAfterSave ==
    \A p \in Procs :
        LET pr == app.placing[p] IN
        /\ (HasPublished(p) \/ Delivered(p)) =>
               /\ pr.saved
               /\ ~PlaceFails(p)
               /\ pr.placedOrder.status = PLACED
               /\ pr.pub.event = OrderPlacedEventNew(p, pr.placedOrder)
               /\ app.db.status = PLACED
               /\ app.db.id = pr.pub.event.aggregateId
        /\ (pr.pc = "done" /\ ~pr.output.success) =>
               (~HasPublished(p) /\ ~Delivered(p))
        /\ (pr.pc = "done" /\ pr.output.success) => (pr.saved /\ HasPublished(p))
        /\ (pr.order = NoOrder \/ PlaceFails(p)) => ~pr.saved
        /\ (pr.pc = "done" /\ pr.output.message = "save failed") => ~pr.saved

\* two executions loaded the same Draft order: the save of the first went
\* through and its event reached a handler, the save of the second failed
C21_Witness ==
    /\ app.placing[1].pc = "done"
    /\ app.placing[1].output.success
    /\ Delivered(1)
    /\ app.db.status = PLACED
    /\ app.placing[2].pc = "done"
    /\ app.placing[2].output.message = "save failed"
    /\ app.placing[2].placedOrder.status = PLACED
    /\ ~Delivered(2)

\* the calls of handle() made for the event of execution p, oldest first
CallsFor(p) == SelectSeq(app.bus.log, LAMBDA c : c.event.eventId = p)

HandlersCalledFor(p) == [k \in 1..Len(CallsFor(p)) |-> CallsFor(p)[k].handler]

Count(seq, x) == Cardinality({ k \in 1..Len(seq) : seq[k] = x })

\* the handlers called for event e, oldest first
HandlersCalledWith(e) ==
    LET calls == SelectSeq(app.bus.log, LAMBDA c : c.event = e) IN
    [k \in 1..Len(calls) |-> calls[k].handler]

\* no handler is called with an event of another type than its own
OwnTypeOnly ==
    \A k \in 1..Len(app.bus.log) :
        getEventType(app.bus.log[k].handler) = app.bus.log[k].event.eventType

\* publishAll: all calls for one event come before all calls for the next
EventsInArrayOrder ==
    \A j, k \in 1..Len(app.bus.log) :
        j < k => app.bus.log[j].event.eventId <= app.bus.log[k].event.eventId

\* every handler that stayed subscribed from the call of publish to its
\* return was called, once for each such subscription
SubscribedAreCalled ==
    \A r \in 1..Len(app.publishing.returned) :
        LET f == app.publishing.returned[r] IN
        \A h \in Handlers : Count(HandlersCalledWith(f.event), h) >= Count(f.since, h)

\* C23 as stated: publish calls each handler subscribed for the event's
\* type exactly once per subscription, in subscription order, and no
\* handler of another type; publishAll publishes in array order, finishing
\* one event before starting the next.
C23_EachSubscribedHandlerOnce ==
    /\ OwnTypeOnly
    /\ EventsInArrayOrder
    /\ SubscribedAreCalled

\* the receiver has a line for the book the call names
HasLine == \E i \in 1..Len(last.before.items) : last.before.items[i].bookId = last.args.bookId

\* position of the first line for the book the call names
FirstLine ==
    CHOOSE i \in 1..Len(last.before.items) :
        /\ last.before.items[i].bookId = last.args.bookId
        /\ \A j \in 1..(i - 1) : last.before.items[j].bookId # last.args.bookId

\* C24: removeItem on a Draft order fails with ItemNotFound and returns no
\* Order when no line has the bookId; otherwise it returns the order with
\* exactly one line gone, the first one for that bookId, the others in
\* their order, and the total recomputed from what remains: zero in the
\* previous total's currency when nothing remains.
C24_RemoveItem ==
    (last.op = "removeItem" /\ last.before.status = DRAFT) =>
        IF ~HasLine
        THEN ~last.ok /\ last.err = "ItemNotFound" /\ last.val = NoOrder
        ELSE /\ last.ok
             /\ Len(last.val.items) = Len(last.before.items) - 1
             /\ \A i \in 1..Len(last.val.items) :
                  last.val.items[i] = last.before.items[IF i < FirstLine THEN i ELSE i + 1]
             /\ last.val.total.amount = SumSubtotalAmounts(last.val.items)
             /\ last.val.total.currency =
                    IF last.val.items = <<>> THEN last.before.total.currency
                    ELSE last.val.items[1].subtotal.currency
             /\ order = last.val

\* the first of two lines for one book is removed, the second stays
C24_Witness ==
    /\ last.op = "removeItem"
    /\ last.ok
    /\ Len(last.before.items) = 2
    /\ last.before.items[1].bookId = last.args.bookId
    /\ last.before.items[2].bookId = last.args.bookId
    /\ last.before.items[1].quantity # last.before.items[2].quantity
    /\ order.items = <<last.before.items[2]>>
    /\ order.total = last.before.items[2].subtotal

\* C25: updateItemQuantity(bookId, n) on a Draft order fails with
\* ItemNotFound when no line has the bookId; otherwise for n > 0 it returns
\* the order in which the first line for the bookId, where it was, has
\* quantity n, the unit price it had and subtotal unit price x n, every
\* other line is as it was and the total is recomputed; for n <= 0 it fails
\* and returns no Order.
C25_UpdateItemQuantity ==
    (last.op = "updateItemQuantity" /\ last.before.status = DRAFT) =>
        IF ~HasLine
        THEN ~last.ok /\ last.err = "ItemNotFound" /\ last.val = NoOrder
        ELSE IF last.args.quantity <= 0
        THEN ~last.ok /\ last.val = NoOrder /\ order = last.before
        ELSE /\ last.ok
             /\ Len(last.val.items) = Len(last.before.items)
             /\ \A i \in 1..Len(last.val.items) :
                  IF i = FirstLine
                  THEN last.val.items[i] =
                         [bookId    |-> last.args.bookId,
                          quantity  |-> last.args.quantity,
                          unitPrice |-> last.before.items[i].unitPrice,
                          subtotal  |-> [amount   |-> last.before.items[i].unitPrice.amount
                                                        * last.args.quantity,
                                         currency |-> last.before.items[i].unitPrice.currency]]
                  ELSE last.val.items[i] = last.before.items[i]
             /\ TotalIsSum(last.val.total, last.val.items)
             /\ order = last.val

\* the first of two lines goes from one unit to two, the second stays
C25_Witness ==
    /\ last.op = "updateItemQuantity"
    /\ last.ok
    /\ Len(last.before.items) = 2
    /\ last.before.items[1].bookId = last.args.bookId
    /\ last.before.items[2].bookId # last.args.bookId
    /\ last.before.items[1].quantity = 1
    /\ last.args.quantity = 2
    /\ order.items[1].quantity = 2
    /\ order.items[2] = last.before.items[2]
    /\ order.total.amount = last.before.total.amount + order.items[1].unitPrice.amount

\* the fields of o other than those named in the set changed
Except(o, changed) ==
    [f \in (DOMAIN o) \ changed |-> o[f]]

\* C26: every successful command returns an Order with the receiver's id,
\* customerId and createdAt; place changes only status and placedAt,
\* complete only status and completedAt, cancel only status and cancelledAt,
\* and the item commands change only items and total.
C26_Frame ==
    (last.op \in Commands /\ last.ok) =>
        /\ last.val.id = last.before.id
        /\ last.val.customerId = last.before.customerId
        /\ last.val.createdAt = last.before.createdAt
        /\ last.op = "place" =>
               Except(last.val, {"status", "placedAt"})
                   = Except(last.before, {"status", "placedAt"})
        /\ last.op = "complete" =>
               Except(last.val, {"status", "completedAt"})
                   = Except(last.before, {"status", "completedAt"})
        /\ last.op = "cancel" =>
               Except(last.val, {"status", "cancelledAt"})
                   = Except(last.before, {"status", "cancelledAt"})
        /\ last.op \in ItemCommands =>
               Except(last.val, {"items", "total"})
                   = Except(last.before, {"items", "total"})

\* a Placed order is cancelled and keeps the placedAt it had
C26_Witness ==
    /\ last.op = "cancel"
    /\ last.ok
    /\ last.before.status = PLACED
    /\ last.before.placedAt # NullDate
    /\ order.status = CANCELLED
    /\ order.placedAt = last.before.placedAt
    /\ order.cancelledAt # NullDate
    /\ order.items = last.before.items

AllowedPairs ==
    {<<DRAFT, PLACED>>, <<DRAFT, CANCELLED>>, <<PLACED, COMPLETED>>, <<PLACED, CANCELLED>>}

\* C27: canTransitionTo is a total lookup: for every pair of statuses it
\* gives true or false, true exactly for Draft->Placed, Draft->Cancelled,
\* Placed->Completed and Placed->Cancelled (so false for every status to
\* itself and for Draft->Completed); isTerminal is true exactly for the
\* statuses with no allowed target, Completed and Cancelled. complete() and
\* cancel() on any order succeed exactly on the allowed pairs.
C27_TransitionTable ==
    /\ \A s, t \in OrderStatusValue :
         /\ canTransitionTo(s, t) \in BOOLEAN
         /\ canTransitionTo(s, t) <=> <<s, t>> \in AllowedPairs
    /\ \A s \in OrderStatusValue :
         /\ ~canTransitionTo(s, s)
         /\ isTerminal(s) <=> (\A t \in OrderStatusValue : ~canTransitionTo(s, t))
         /\ isTerminal(s) <=> s \in {COMPLETED, CANCELLED}
    /\ ~canTransitionTo(DRAFT, COMPLETED)
    /\ last.op = "complete" =>
         /\ last.ok <=> <<last.before.status, COMPLETED>> \in AllowedPairs
         /\ ~last.ok => last.err = "InvalidStatusTransition"
    /\ last.op = "cancel" =>
         /\ last.ok <=> <<last.before.status, CANCELLED>> \in AllowedPairs
         /\ ~last.ok => last.err = "InvalidStatusTransition"

\* complete() on a Draft order that has a line: Draft->Completed is refused
C27_Witness ==
    /\ last.op = "complete"
    /\ last.before.status = DRAFT
    /\ Len(last.before.items) > 0
    /\ ~last.ok
    /\ last.err = "InvalidStatusTransition"
    /\ order.status = DRAFT
    /\ ~isTerminal(order.status)

\* C28: after every step of a caller that starts with User.create and
\* calls borrowBook, returnBook, addOverdueFee, payOverdueFee, suspend and
\* activate, the user it holds has 0 <= currentBorrowCount <= MAX_BORROW_LIMIT
\* and overdueFees >= 0; borrowBook succeeds, adding one to the count,
\* exactly when the user is ACTIVE, below the limit and without overdue
\* fees, and otherwise throws and leaves the user as it was.
C28_UserInvariants ==
    LET user == app.library.user
        call == app.library.call
    IN /\ HasUser =>
            /\ 0 <= user.currentBorrowCount
            /\ user.currentBorrowCount <= MAX_BORROW_LIMIT
            /\ user.overdueFees >= 0
       /\ call.op = "borrowBook" =>
            /\ call.ok <=> /\ call.before.status = ACTIVE
                           /\ call.before.currentBorrowCount < MAX_BORROW_LIMIT
                           /\ call.before.overdueFees = 0
            /\ call.ok => user = [call.before EXCEPT !.currentBorrowCount = @ + 1]
            /\ ~call.ok => user = call.before /\ call.err = "User cannot borrow books"

\* the sixth borrowBook of an ACTIVE user without fees is refused
C28_Witness ==
    /\ app.library.call.op = "borrowBook"
    /\ ~app.library.call.ok
    /\ app.library.call.before.status = ACTIVE
    /\ app.library.call.before.overdueFees = 0
    /\ app.library.user.currentBorrowCount = MAX_BORROW_LIMIT

ServiceDone(op) == app.library.svc.pc = "done" /\ app.library.svc.op = op

\* C29: a call of BorrowBookService.returnBook(user, book) for a book that
\* user has borrowed, whose saves go through, is never rejected: it returns
\* a success result with the user's count one lower, the book AVAILABLE
\* with no borrower and, when the book is overdue (borrowed more than 14
\* days ago, by however little), the fees raised by overdueDays x 100.
\* For a book not borrowed by that user it returns an error result and
\* the saved user and book stay as they were.
C29_ReturnBookNeverThrows ==
    LET svc == app.library.svc IN
    ServiceDone("returnBook") /\ svc.threw # "save failed" =>
        IF svc.book.borrowedBy = svc.user.id
        THEN /\ svc.threw = ""
             /\ svc.result.success
             /\ svc.result.updatedUser.currentBorrowCount = svc.user.currentBorrowCount - 1
             /\ svc.result.updatedBook.status = AVAILABLE
             /\ svc.result.updatedBook.borrowedBy = NoUserId
             /\ svc.result.updatedUser.overdueFees =
                  svc.user.overdueFees
                  + (IF isOverdue(svc.book, svc.times[1])
                     THEN getOverdueDays(svc.book, svc.times[2], svc.times[3])
                          * OVERDUE_FEE_PER_DAY
                     ELSE 0)
        ELSE /\ svc.threw = ""
             /\ ~svc.result.success
             /\ svc.result.error = "This book was not borrowed by this user"
             /\ app.library.users = svc.user
             /\ app.library.books = svc.book

\* the book was overdue by less than a full day and the call was rejected
C29_LateByLessThanADay ==
    LET svc == app.library.svc IN
    /\ ServiceDone("returnBook")
    /\ svc.book.borrowedBy = svc.user.id
    /\ isOverdue(svc.book, svc.times[1])
    /\ getOverdueDays(svc.book, svc.times[2], svc.times[3]) = 0
    /\ svc.threw = "Overdue fee amount must be positive"

\* C30: BorrowBookService.execute saves the user change and the book change
\* as one unit: in no state of a call, the second save failing included, is
\* the user saved with the count raised by one while the book is still
\* saved as AVAILABLE; and a call that finds the user not eligible or the
\* book not available leaves the saved user and book as they were.
C30_SavedAsOneUnit ==
    LET svc == app.library.svc IN
    svc.op = "execute" =>
        /\ ~ /\ app.library.users.currentBorrowCount = svc.user.currentBorrowCount + 1
             /\ app.library.books.status = AVAILABLE
        /\ svc.pc = "done" /\ svc.threw = "" /\ ~svc.result.success =>
             /\ ~canBorrow(svc.user) \/ ~isAvailable(svc.book)
             /\ app.library.users = svc.user
             /\ app.library.books = svc.book

\* the second save failed: the call is rejected with the user saved as a
\* borrower and the book saved as AVAILABLE
C30_SecondSaveFailed ==
    LET svc == app.library.svc IN
    /\ ServiceDone("execute")
    /\ svc.threw = "save failed"
    /\ app.library.users = svc.updatedUser
    /\ app.library.users.currentBorrowCount = svc.user.currentBorrowCount + 1
    /\ app.library.books = svc.book
    /\ app.library.books.status = AVAILABLE

\* a call that refuses the borrower or the book saves nothing
C30_RefusalSavesNothing ==
    LET svc == app.library.svc IN
    ServiceDone("execute") /\ svc.threw = "" /\ ~svc.result.success =>
        /\ ~canBorrow(svc.user) \/ ~isAvailable(svc.book)
        /\ app.library.users = svc.user
        /\ app.library.books = svc.book

\* C31: every Order reached from Order.create by commands that is Placed
\* or Completed has at least one item; only Draft and Cancelled orders are
\* ever empty, and place() on an empty order is refused.
C31_PlacedHasItems ==
    /\ Exists /\ order.status \in {PLACED, COMPLETED} => Len(order.items) > 0
    /\ Exists /\ Len(order.items) = 0 => order.status \in {DRAFT, CANCELLED}
    /\ last.op = "place" /\ Len(last.before.items) = 0 => ~last.ok

\* a Draft order with a line was placed and then completed
C31_Witness ==
    /\ Exists
    /\ last.op = "complete"
    /\ last.ok
    /\ last.before.status = PLACED
    /\ order.status = COMPLETED
    /\ Len(order.items) > 0

\* C32: the timestamps of every Order reached from Order.create by
\* commands match the path it took: a Draft order has placedAt, completedAt
\* and cancelledAt null; a Placed order has completedAt and cancelledAt
\* null; a Completed order has placedAt set and cancelledAt null; and
\* completedAt and cancelledAt are never both set.
C32_TimestampsMatchPath ==
    Exists =>
        /\ order.status = DRAFT =>
             /\ order.placedAt = NullDate
             /\ order.completedAt = NullDate
             /\ order.cancelledAt = NullDate
        /\ order.status = PLACED =>
             /\ order.completedAt = NullDate
             /\ order.cancelledAt = NullDate
        /\ order.status = COMPLETED =>
             /\ order.placedAt # NullDate
             /\ order.cancelledAt = NullDate
        /\ ~(order.completedAt # NullDate /\ order.cancelledAt # NullDate)

\* a Placed order was cancelled: placedAt and cancelledAt are set,
\* completedAt is not
C32_Witness ==
    /\ Exists
    /\ last.op = "cancel"
    /\ last.ok
    /\ last.before.status = PLACED
    /\ order.status = CANCELLED
    /\ order.placedAt # NullDate
    /\ order.cancelledAt # NullDate
    /\ order.completedAt = NullDate

\* what C12, C31 and C32 establish of every Order the commands produce
Producible(o) ==
    /\ \A i, j \in 1..Len(o.items) : i # j => o.items[i].bookId # o.items[j].bookId
    /\ o.status \in {PLACED, COMPLETED} => Len(o.items) > 0
    /\ o.status = DRAFT =>
         o.placedAt = NullDate /\ o.completedAt = NullDate /\ o.cancelledAt = NullDate
    /\ o.status = PLACED => o.completedAt = NullDate /\ o.cancelledAt = NullDate
    /\ o.status = COMPLETED => o.placedAt # NullDate /\ o.cancelledAt = NullDate
    /\ ~(o.completedAt # NullDate /\ o.cancelledAt # NullDate)

\* C33: every Order that Order.reconstruct returns has items, total,
\* status and timestamps like those of an Order the commands produce from
\* Order.create: a Placed order with no items, a Completed order with
\* placedAt null, a Draft order with placedAt set and two items with the
\* same bookId are all rejected.
C33_ReconstructOnlyProducible ==
    last.op = "reconstruct" /\ last.ok => Producible(last.val)

\* Order.reconstruct returned a Placed order that has no items
C33_PlacedWithoutItemsAccepted ==
    /\ last.op = "reconstruct"
    /\ last.ok
    /\ order = last.val
    /\ order.status = PLACED
    /\ order.items = <<>>

\* C34: the currency of an order is the one Order.create was given: a
\* created order has total.currency equal to the currency argument, and
\* every successful command returns an order whose total.currency is that
\* of its receiver, whatever the currency of the unit price handed to addItem.
C34_CurrencyFixedAtCreation ==
    /\ last.op = "create" /\ last.ok => order.total.currency = last.args.currency
    /\ last.op \notin {"none", "create"} /\ last.ok /\ last.before # NoOrder =>
         order.total.currency = last.before.total.currency

\* addItem with a USD unit price on an empty order created in JPY succeeded
\* and the order's total is in USD
C34_CurrencyChanged ==
    /\ last.op = "addItem"
    /\ last.ok
    /\ last.before.items = <<>>
    /\ last.before.total = [amount |-> 0, currency |-> JPY]
    /\ last.args.unitPrice.currency = USD
    /\ order.total.currency = USD

\* C35: addItem only adds: a successful addItem(bookId, q, p) has q > 0 and
\* returns an order whose getTotalItemCount() is strictly greater than the
\* receiver's, and an addItem with q <= 0 fails, whether or not the order
\* already has a line for bookId.
C35_AddItemOnlyAdds ==
    last.op = "addItem" =>
        /\ last.ok =>
             /\ last.args.quantity > 0
             /\ getTotalItemCount(order) > getTotalItemCount(last.before)
        /\ last.args.quantity <= 0 => ~last.ok

\* addItem with quantity -1 for a book the order has two of succeeded and
\* left one
C35_AddItemTookOneAway ==
    /\ last.op = "addItem"
    /\ last.ok
    /\ last.args.quantity = -1
    /\ findIndex(last.before.items, last.args.bookId) >= 1
    /\ getTotalItemCount(last.before) = 2
    /\ getTotalItemCount(order) = 1

\* the executions of PlaceOrderUseCase that have published an
\* OrderPlacedEvent for the order id
PublishersFor(orderId) ==
    { p \in Procs : HasPublished(p) /\ app.placing[p].pub.event.aggregateId = orderId }

\* C36: whatever the interleaving of the executions of PlaceOrderUseCase
\* for one order id, at most one of them publishes an OrderPlacedEvent for
\* that order.
C36_OneEventPerOrder ==
    \A orderId \in OrderIds : Cardinality(PublishersFor(orderId)) <= 1

\* two executions loaded the same Draft order before either saved; both
\* placed it, saved it and returned success, each having published an event
C36_PlacedTwice ==
    /\ \A p \in Procs :
         /\ app.placing[p].pc = "done"
         /\ app.placing[p].output.success
         /\ app.placing[p].order.status = DRAFT
         /\ HasPublished(p)
    /\ Cardinality(PublishersFor("o1")) = 2

\* C37: the persisted order follows the state machine of the aggregate
\* under every interleaving of executions of AddItemToOrderUseCase and
\* PlaceOrderUseCase on one order id: once a save has stored the order as
\* Placed, no later save stores it as Draft or with another item list.
C37_PlacedStaysPlaced ==
    [][app.db.status = PLACED =>
         /\ app'.db.status # DRAFT
         /\ app'.db.items = app.db.items]_vars

\* an execution of AddItemToOrderUseCase that loaded the order as Draft has
\* saved it, as Draft and with its new line, over the Placed order that an
\* execution of PlaceOrderUseCase had saved in between
C37_DraftSavedOverPlaced ==
    \E p, q \in Procs :
        /\ app.procs[p].pc = "done"
        /\ app.procs[p].output.success
        /\ app.placing[q].saved
        /\ app.placing[q].placedOrder.status = PLACED
        /\ app.db.status = DRAFT
        /\ Len(app.db.items) > Len(app.placing[q].placedOrder.items)

\* C38: a handler that unsubscribe(h) has removed, however often it had
\* been subscribed before, is not invoked by a publish called later, until
\* it is subscribed again; and no handler is invoked by a publish called
\* after clearHandlers() until it is subscribed again.
C38_UnsubscribedNotInvoked ==
    [][Len(app'.bus.log) > Len(app.bus.log) =>
         app'.bus.log[Len(app'.bus.log)].handler \notin app'.publishing.offAtCall]_vars

\* a handler subscribed twice and unsubscribed once before publish was
\* called has been invoked by that publish
C38_InvokedAfterUnsubscribe ==
    /\ app.bus.log # <<>>
    /\ app.bus.log[Len(app.bus.log)].handler \in app.publishing.offAtCall
    /\ app.bus.log[Len(app.bus.log)].handler \in app.publishing.off

====
